---------------------------- MODULE Spec2Model ----------------------------
(***************************************************************************)
(* autorenamer 1.7.8 (src/plex_arenamer1.7.8.py): the filename identity    *)
(* resolution and rename-decision engine.                                  *)
(*                                                                         *)
(* Python strings are sequences of one-character strings, so that the      *)
(* regular expressions of the source are computed character by character. *)
(* An optional value (Python's None) is a sequence of length at most one:  *)
(* None is << >> and a present value v is <<v>>.                           *)
(***************************************************************************)
EXTENDS Integers, Sequences, FiniteSets, TLC

(***************************************************************************)
(* Characters and the character classes of Python's re module.            *)
(***************************************************************************)
UpperSeq == <<"A","B","C","D","E","F","G","H","I","J","K","L","M",
              "N","O","P","Q","R","S","T","U","V","W","X","Y","Z">>

LowerSeq == <<"a","b","c","d","e","f","g","h","i","j","k","l","m",
              "n","o","p","q","r","s","t","u","v","w","x","y","z">>

DigitSeq == <<"0","1","2","3","4","5","6","7","8","9">>

Range(s) == {s[i] : i \in DOMAIN s}

Digits == Range(DigitSeq)

UpperLetters == Range(UpperSeq)

WordChars == Range(UpperSeq) \cup Range(LowerSeq) \cup Range(DigitSeq) \cup {"_"}

\* \d
IsDigit(c) == c \in Digits

\* \w : letters, digits and the underscore
IsWordChar(c) == c \in WordChars

\* \s and the characters str.strip() removes
IsSpace(c) == c \in {" ", "\t"}

\* int() of one decimal digit
DigitVal(c) == (CHOOSE i \in DOMAIN DigitSeq : DigitSeq[i] = c) - 1

\* str.lower() of one character
LowerChar(c) ==
    IF c \in UpperLetters
    THEN LowerSeq[CHOOSE i \in DOMAIN UpperSeq : UpperSeq[i] = c]
    ELSE c

\* str.lower()
lower(s) == [i \in 1..Len(s) |-> LowerChar(s[i])]

None == << >>

Some(v) == <<v>>

\* s[i:] of Python with i counted from 1
From(s, i) == SubSeq(s, i, Len(s))

\* the text lit stands in s at position i
LitAt(s, i, lit) ==
    /\ i >= 1
    /\ i + Len(lit) - 1 <= Len(s)
    /\ \A k \in 1..Len(lit) : s[i + k - 1] = lit[k]

\* lit in s
Contains(s, lit) == \E i \in 1..(Len(s) + 1) : LitAt(s, i, lit)

\* the position after the longest run of digits that starts at i (\d* , greedy)
RECURSIVE DigitsEnd(_, _)
DigitsEnd(s, i) ==
    IF i <= Len(s) /\ IsDigit(s[i]) THEN DigitsEnd(s, i + 1) ELSE i

\* the position after the longest run of white space that starts at i (\s* , greedy)
RECURSIVE SpacesEnd(_, _)
SpacesEnd(s, i) ==
    IF i <= Len(s) /\ IsSpace(s[i]) THEN SpacesEnd(s, i + 1) ELSE i

\* \b before position i: exactly one of s[i-1], s[i] is a word character
WordBoundary(s, i) ==
    LET before == i - 1 >= 1 /\ i - 1 <= Len(s) /\ IsWordChar(s[i - 1])
        after  == i >= 1 /\ i <= Len(s) /\ IsWordChar(s[i])
    IN  before # after

\* int() of a string of decimal digits
RECURSIVE int(_)
int(s) == IF Len(s) = 0 THEN 0 ELSE 10 * int(SubSeq(s, 1, Len(s) - 1)) + DigitVal(s[Len(s)])

\* str.isdigit()
isdigit(s) == Len(s) > 0 /\ \A i \in DOMAIN s : IsDigit(s[i])

\* str.strip()
RECURSIVE lstrip(_)
lstrip(s) == IF Len(s) > 0 /\ IsSpace(s[1]) THEN lstrip(Tail(s)) ELSE s

RECURSIVE rstrip(_)
rstrip(s) == IF Len(s) > 0 /\ IsSpace(s[Len(s)]) THEN rstrip(SubSeq(s, 1, Len(s) - 1)) ELSE s

strip(s) == lstrip(rstrip(s))

\* len(s.split()): the number of maximal runs of characters that are not white space
RECURSIVE WordCount(_)
WordCount(s) ==
    IF Len(s) = 0 THEN 0
    ELSE IF IsSpace(s[1]) THEN WordCount(Tail(s))
    ELSE IF Len(s) = 1 \/ IsSpace(s[2]) THEN 1 + WordCount(Tail(s))
    ELSE WordCount(Tail(s))

\* re.sub(r'\s+', ' ', s)
RECURSIVE CollapseSpaces(_)
CollapseSpaces(s) ==
    IF Len(s) = 0 THEN << >>
    ELSE IF IsSpace(s[1]) THEN <<" ">> \o CollapseSpaces(From(s, SpacesEnd(s, 1)))
    ELSE <<s[1]>> \o CollapseSpaces(Tail(s))

\* str.replace(old, new) for a non-empty old
RECURSIVE replace(_, _, _)
replace(s, old, new) ==
    IF Len(s) = 0 THEN << >>
    ELSE IF LitAt(s, 1, old) THEN new \o replace(From(s, Len(old) + 1), old, new)
    ELSE <<s[1]>> \o replace(Tail(s), old, new)

\* (19\d{2}|20\d{2}|21\d{2}|2200) stands in s at position i
YearAt(s, i) ==
    /\ i >= 1
    /\ i + 3 <= Len(s)
    /\ \/ /\ s[i] = "1" /\ s[i + 1] = "9" /\ IsDigit(s[i + 2]) /\ IsDigit(s[i + 3])
       \/ /\ s[i] = "2" /\ s[i + 1] \in {"0", "1"} /\ IsDigit(s[i + 2]) /\ IsDigit(s[i + 3])
       \/ /\ s[i] = "2" /\ s[i + 1] = "2" /\ s[i + 2] = "0" /\ s[i + 3] = "0"

(***************************************************************************)
(* os.path on POSIX paths.                                                 *)
(***************************************************************************)
\* the position of the last occurrence of character c in s, 0 if there is none (str.rfind)
rfind(s, c) ==
    IF \E i \in DOMAIN s : s[i] = c
    THEN CHOOSE i \in DOMAIN s : s[i] = c /\ \A j \in DOMAIN s : s[j] = c => j <= i
    ELSE 0

\* os.path.basename
basename(p) == From(p, rfind(p, "/") + 1)

\* os.path.dirname: the head up to the last slash, without its trailing slashes unless it is all slashes
RECURSIVE rstrip_slash(_)
rstrip_slash(s) ==
    IF Len(s) > 0 /\ s[Len(s)] = "/" THEN rstrip_slash(SubSeq(s, 1, Len(s) - 1)) ELSE s

dirname(p) ==
    LET head == SubSeq(p, 1, rfind(p, "/"))
    IN  IF Len(head) > 0 /\ \E i \in DOMAIN head : head[i] # "/"
        THEN rstrip_slash(head)
        ELSE head

\* the position of the dot where os.path.splitext splits p, 0 if it does not split:
\* the last dot of the last component, unless only dots precede it there
splitext_dot(p) ==
    LET sepIndex == rfind(p, "/")
        dotIndex == rfind(p, ".")
    IN  IF dotIndex > sepIndex /\ \E k \in (sepIndex + 1)..(dotIndex - 1) : p[k] # "."
        THEN dotIndex
        ELSE 0

\* os.path.splitext(p)[0]
splitext_root(p) == IF splitext_dot(p) = 0 THEN p ELSE SubSeq(p, 1, splitext_dot(p) - 1)

\* os.path.splitext(p)[1]
splitext_ext(p) == IF splitext_dot(p) = 0 THEN << >> ELSE From(p, splitext_dot(p))

\* os.path.join(a, b)
join(a, b) ==
    IF Len(b) > 0 /\ b[1] = "/" THEN b
    ELSE IF Len(a) = 0 \/ a[Len(a)] = "/" THEN a \o b
    ELSE a \o <<"/">> \o b

(***************************************************************************)
(* sanitize_filename, extract_year_from_filename                           *)
(***************************************************************************)
IllegalChars == {":", "\\", "/", "*", "?", "\"", "<", ">", "|"}

\* re.sub(r'[:\\/*?"<>|]', '', name)
RemoveIllegal(name) == SelectSeq(name, LAMBDA c : c \notin IllegalChars)

\* sanitize_filename of plex_renamer1.7.1.py, which leaves the white space as it is
sanitize_filename_v171(name) == RemoveIllegal(name)

\* sanitize_filename without the removal of line 143
sanitize_keeping_separators(name) == strip(CollapseSpaces(name))

\* lines 142 to 144
sanitize_filename(name) == strip(CollapseSpaces(RemoveIllegal(name)))

\* \b(19\d{2}|20\d{2}|21\d{2}|2200)\b matches in s at position i
YearTokenAt(s, i) == YearAt(s, i) /\ WordBoundary(s, i) /\ WordBoundary(s, i + 4)

\* re.search: the first position where the year token matches
extract_year_from_filename(filename_str) ==
    IF \E i \in DOMAIN filename_str : YearTokenAt(filename_str, i)
    THEN LET i == CHOOSE k \in DOMAIN filename_str :
                     /\ YearTokenAt(filename_str, k)
                     /\ \A j \in 1..(k - 1) : ~YearTokenAt(filename_str, j)
         IN  Some(int(SubSeq(filename_str, i, i + 3)))
    ELSE None

\* extract_year_from_filename of plex_renamer1.7.1.py: the same years, searched without
\* the word boundaries
extract_year_from_filename_v171(filename) ==
    LET positions == {i \in DOMAIN filename : YearAt(filename, i)}
    IN  IF positions = {} THEN None
        ELSE LET i == CHOOSE k \in positions : \A j \in positions : k <= j
             IN  Some(int(SubSeq(filename, i, i + 3)))

(***************************************************************************)
(* extract_basename: the steps of the normalizer, in the order of the code *)
(***************************************************************************)
\* str(n) for n >= 0
RECURSIVE str(_)
str(n) == IF n < 10 THEN <<DigitSeq[n + 1]>> ELSE str(n \div 10) \o <<DigitSeq[(n % 10) + 1]>>

\* the first position after 1 where character c stands in s, 0 if there is none
NextAfterFirst(s, c) ==
    IF \E j \in 2..Len(s) : s[j] = c
    THEN CHOOSE j \in 2..Len(s) : s[j] = c /\ \A k \in 2..(j - 1) : s[k] # c
    ELSE 0

\* re.sub(open .*? close, '', s): every group from an opening character to the next closing one
RECURSIVE RemoveGroups(_, _, _)
RemoveGroups(s, open, close) ==
    IF Len(s) = 0 THEN << >>
    ELSE IF s[1] = open /\ NextAfterFirst(s, close) # 0
    THEN RemoveGroups(From(s, NextAfterFirst(s, close) + 1), open, close)
    ELSE <<s[1]>> \o RemoveGroups(Tail(s), open, close)

\* \b word \b matches in s at position i, letter case ignored
NoiseWordAt(s, i, word) ==
    /\ LitAt(lower(s), i, lower(word))
    /\ WordBoundary(s, i)
    /\ WordBoundary(s, i + Len(word))

\* re.sub(r'\b' + re.escape(word) + r'\b', '', s, flags=re.IGNORECASE), scanning from position i
RECURSIVE RemoveWordFrom(_, _, _)
RemoveWordFrom(s, word, i) ==
    IF i > Len(s) THEN << >>
    ELSE IF NoiseWordAt(s, i, word) THEN RemoveWordFrom(s, word, i + Len(word))
    ELSE <<s[i]>> \o RemoveWordFrom(s, word, i + 1)

RemoveWord(s, word) == IF Len(word) = 0 THEN s ELSE RemoveWordFrom(s, word, 1)

\* for word in WORDS_TO_REMOVE: name = re.sub(...)
RECURSIVE RemoveWords(_, _)
RemoveWords(s, words) ==
    IF Len(words) = 0 \/ Len(s) = 0 THEN s
    ELSE RemoveWords(RemoveWord(s, Head(words)), Tail(words))

placeholder_base ==
    <<"_","_","_","Y","E","A","R","_","P","L","A","C","E","H","O","L","D","E","R","_","_","_">>

\* re.fullmatch(r'(19\d{2}|20\d{2}|21\d{2}|2200)', content)
IsYear(content) == Len(content) = 4 /\ YearAt(content, 1)

\* re.sub(r'\((.*?)\)', replace_year_in_paren, s): a group that holds only a year becomes the
\* placeholder numbered by the years seen so far (n), any other group is left as it is
RECURSIVE replace_year_in_paren(_, _)
replace_year_in_paren(s, n) ==
    IF Len(s) = 0 THEN << >>
    ELSE IF s[1] = "(" /\ NextAfterFirst(s, ")") # 0
    THEN LET j == NextAfterFirst(s, ")")
         IN  IF IsYear(SubSeq(s, 2, j - 1))
             THEN placeholder_base \o str(n) \o replace_year_in_paren(From(s, j + 1), n + 1)
             ELSE SubSeq(s, 1, j) \o replace_year_in_paren(From(s, j + 1), n)
    ELSE <<s[1]>> \o replace_year_in_paren(Tail(s), n)

\* the values of years_in_parens_placeholders, in the order of insertion
RECURSIVE years_in_parens(_)
years_in_parens(s) ==
    IF Len(s) = 0 THEN << >>
    ELSE IF s[1] = "(" /\ NextAfterFirst(s, ")") # 0
    THEN LET j == NextAfterFirst(s, ")")
         IN  IF IsYear(SubSeq(s, 2, j - 1))
             THEN <<SubSeq(s, 1, j)>> \o years_in_parens(From(s, j + 1))
             ELSE years_in_parens(From(s, j + 1))
    ELSE years_in_parens(Tail(s))

\* (?<!\()\b(19\d{2}|20\d{2}|21\d{2}|2200)\b(?!\)) matches in s at position i
BareYearAt(s, i) ==
    /\ YearTokenAt(s, i)
    /\ ~(i > 1 /\ s[i - 1] = "(")
    /\ ~(i + 4 <= Len(s) /\ s[i + 4] = ")")

RECURSIVE RemoveBareYearsFrom(_, _)
RemoveBareYearsFrom(s, i) ==
    IF i > Len(s) THEN << >>
    ELSE IF BareYearAt(s, i) THEN RemoveBareYearsFrom(s, i + 4)
    ELSE <<s[i]>> \o RemoveBareYearsFrom(s, i + 1)

\* for placeholder, original in years_in_parens_placeholders.items(): name.replace(...)
RECURSIVE RestoreYears(_, _, _)
RestoreYears(s, years, k) ==
    IF k > Len(years) THEN s
    ELSE RestoreYears(replace(s, placeholder_base \o str(k - 1), years[k]), years, k + 1)

\* \s*\((19\d{2}|20\d{2}|21\d{2}|2200)\)\s* matches in s at position i: the position after the
\* match, 0 if it does not match
ParenYearEnd(s, i) ==
    LET j == SpacesEnd(s, i)
    IN  IF j + 5 <= Len(s) /\ s[j] = "(" /\ YearAt(s, j + 1) /\ s[j + 5] = ")"
        THEN SpacesEnd(s, j + 6)
        ELSE 0

\* re.sub(r'\s*\((19\d{2}|20\d{2}|21\d{2}|2200)\)\s*', ' ', s)
RECURSIVE RemoveParenYearsFrom(_, _)
RemoveParenYearsFrom(s, i) ==
    IF i > Len(s) THEN << >>
    ELSE IF ParenYearEnd(s, i) # 0 THEN <<" ">> \o RemoveParenYearsFrom(s, ParenYearEnd(s, i))
    ELSE <<s[i]>> \o RemoveParenYearsFrom(s, i + 1)

\* name.replace('.', ' ')
DotsToSpaces(s) == [i \in 1..Len(s) |-> IF s[i] = "." THEN " " ELSE s[i]]

\* the pipeline as it was before step 6 was added: the restored (year) stays in the name
pipeline_without_step6(name0, words) ==
    LET name1 == RemoveGroups(name0, "[", "]")
        name2 == RemoveWords(name1, words)
        name3 == RemoveGroups(replace_year_in_paren(name2, 0), "(", ")")
        name4 == strip(RemoveBareYearsFrom(name3, 1))
        name5 == RestoreYears(name4, years_in_parens(name2), 1)
    IN  strip(CollapseSpaces(strip(DotsToSpaces(name5))))

\* steps 1 to 7 of extract_basename on the extension-stripped basename
NormalizePipeline(name0, words) ==
    LET name1 == RemoveGroups(name0, "[", "]")
        name2 == RemoveWords(name1, words)
        name3 == RemoveGroups(replace_year_in_paren(name2, 0), "(", ")")
        name4 == strip(RemoveBareYearsFrom(name3, 1))
        name5 == RestoreYears(name4, years_in_parens(name2), 1)
        name6 == strip(RemoveParenYearsFrom(name5, 1))
        name7 == strip(DotsToSpaces(name6))
    IN  strip(CollapseSpaces(name7))

\* extract_basename without the alternative of line 210
extract_basename_without_fallback(file_path, words) ==
    NormalizePipeline(splitext_root(basename(file_path)), words)

\* extract_basename(file_path) with the global WORDS_TO_REMOVE as a parameter
extract_basename(file_path, words) ==
    LET name0 == splitext_root(basename(file_path))
        name  == NormalizePipeline(name0, words)
    IN  IF Len(name) > 0 THEN name ELSE name0

(***************************************************************************)
(* calculate_similarity: difflib.SequenceMatcher(None, a, b).ratio() * 100 *)
(* for strings shorter than 200 characters (no automatic junk).            *)
(***************************************************************************)
\* the length of the common run of a from i and b from j
RECURSIVE RunLen(_, _, _, _)
RunLen(a, b, i, j) ==
    IF i <= Len(a) /\ j <= Len(b) /\ a[i] = b[j] THEN 1 + RunLen(a, b, i + 1, j + 1) ELSE 0

\* find_longest_match: the longest matching block, the one that starts earliest in a and,
\* of those, earliest in b; size 0 if no character matches
find_longest_match(a, b) ==
    LET pairs == (DOMAIN a) \X (DOMAIN b)
        best  == IF pairs = {} THEN 0
                 ELSE CHOOSE k \in 0..Len(a) :
                          /\ \A p \in pairs : RunLen(a, b, p[1], p[2]) <= k
                          /\ \E p \in pairs : RunLen(a, b, p[1], p[2]) = k
    IN  IF best = 0 THEN [i |-> 1, j |-> 1, size |-> 0]
        ELSE LET bi == CHOOSE i \in DOMAIN a :
                           /\ \E j \in DOMAIN b : RunLen(a, b, i, j) = best
                           /\ \A i2 \in 1..(i - 1) : \A j \in DOMAIN b : RunLen(a, b, i2, j) # best
                 bj == CHOOSE j \in DOMAIN b :
                           /\ RunLen(a, b, bi, j) = best
                           /\ \A j2 \in 1..(j - 1) : RunLen(a, b, bi, j2) # best
             IN  [i |-> bi, j |-> bj, size |-> best]

\* the sum of the sizes of get_matching_blocks(): the longest block, then the same to its
\* left and to its right
RECURSIVE matches(_, _)
matches(a, b) ==
    LET m == find_longest_match(a, b)
    IN  IF m.size = 0 THEN 0
        ELSE m.size
             + matches(SubSeq(a, 1, m.i - 1), SubSeq(b, 1, m.j - 1))
             + matches(From(a, m.i + m.size), From(b, m.j + m.size))

\* ratio() * 100 is computed in binary floating point, 2.0 * matches / length and then
\* * 100, each rounded. The float is compared with integer thresholds only, and it stands to
\* an integer as the exact value 200 * matches / length does unless the exact value is
\* itself an integer and the float is not. For length <= 100 these are the pairs of matches
\* and length where that happens: the float is above the exact value (1) or below it (-1).
float_error(M, T) ==
    IF <<M, T>> \in {<<7, 25>>, <<11, 40>>, <<7, 50>>, <<14, 50>>, <<21, 75>>, <<22, 80>>,
                     <<7, 100>>, <<14, 100>>, <<28, 100>>}
    THEN 1
    ELSE IF <<M, T>> = <<29, 100>> THEN -1
    ELSE 0

\* the score: the exact fraction num/den of 2.0 * matches / length * 100 (1.0 * 100 when both
\* strings are empty) and err, the side on which the float lies
score_of(M, T) ==
    IF T = 0 THEN [num |-> 100, den |-> 1, err |-> 0]
    ELSE [num |-> 200 * M, den |-> T, err |-> float_error(M, T)]

calculate_similarity(a, b) == score_of(matches(a, b), Len(a) + Len(b))

\* similarity_value = 0 of a direct rename, and the score of an item that has none
zero_score == [num |-> 0, den |-> 1, err |-> 0]

(***************************************************************************)
(* get_identifiers and process_movie                                       *)
(***************************************************************************)
\* the least position of the set positions, 0 if it is empty (where re.search matches)
FirstPos(positions) ==
    IF positions = {} THEN 0
    ELSE CHOOSE i \in positions : \A j \in positions : i <= j

\* re.search(r'(tt\d+)', guid_id): group 1, None if there is no match
search_tt_digits(guid_id) ==
    LET at(p) == LitAt(guid_id, p, <<"t","t">>) /\ p + 2 <= Len(guid_id) /\ IsDigit(guid_id[p + 2])
        i == FirstPos({p \in DOMAIN guid_id : at(p)})
    IN  IF i = 0 THEN None ELSE Some(SubSeq(guid_id, i, DigitsEnd(guid_id, i + 2) - 1))

\* re.search(r'(\d+)', guid_id): group 1, None if there is no match
search_digits(guid_id) ==
    LET at(p) == IsDigit(guid_id[p])
        i == FirstPos({p \in DOMAIN guid_id : at(p)})
    IN  IF i = 0 THEN None ELSE Some(SubSeq(guid_id, i, DigitsEnd(guid_id, i) - 1))

\* the loop of get_identifiers over the Guid elements, ids_found being [imdb, tmdb]
RECURSIVE get_identifiers_from(_, _)
get_identifiers_from(guids, ids_found) ==
    IF Len(guids) = 0 THEN ids_found
    ELSE LET guid_id == Head(guids)
             found ==
                 IF Contains(guid_id, <<"i","m","d","b">>)
                 THEN IF search_tt_digits(guid_id) # None
                      THEN [ids_found EXCEPT !.imdb = search_tt_digits(guid_id)]
                      ELSE ids_found
                 ELSE IF Contains(guid_id, <<"t","m","d","b">>)
                 THEN IF search_digits(guid_id) # None
                      THEN [ids_found EXCEPT !.tmdb = search_digits(guid_id)]
                      ELSE ids_found
                 ELSE ids_found
         IN  get_identifiers_from(Tail(guids), found)

get_identifiers(metadata_xml) ==
    get_identifiers_from(metadata_xml.guids, [imdb |-> None, tmdb |-> None])

\* (?:tmdbid\s*=\s*|tmdb-)(\d+) with re.IGNORECASE matches in s at position i: the position
\* where group 1 starts, 0 if it does not match
TmdbExplicitGroupAt(s, i) ==
    LET ls == lower(s)
    IN  IF LitAt(ls, i, <<"t","m","d","b","-">>)
        THEN IF i + 5 <= Len(ls) /\ IsDigit(ls[i + 5]) THEN i + 5 ELSE 0
        ELSE IF LitAt(ls, i, <<"t","m","d","b","i","d">>)
        THEN LET j == SpacesEnd(ls, i + 6)
                 k == SpacesEnd(ls, j + 1)
             IN  IF j <= Len(ls) /\ ls[j] = "=" /\ k <= Len(ls) /\ IsDigit(ls[k]) THEN k ELSE 0
        ELSE 0

\* re.search(r'(?:tmdbid\s*=\s*|tmdb-)(\d+)', s, re.IGNORECASE): group 1, None if no match
tmdb_id_explicit_match(s) ==
    LET at(p) == TmdbExplicitGroupAt(s, p) # 0
        i == FirstPos({p \in DOMAIN s : at(p)})
    IN  IF i = 0 THEN None
        ELSE LET g == TmdbExplicitGroupAt(s, i) IN Some(SubSeq(s, g, DigitsEnd(s, g) - 1))

\* a search for the marker that finds nothing
marker_never_found(s) == FALSE

\* re.search(r'tmdbid|tmdb-', s, re.IGNORECASE) is not None
tmdb_presence_match(s) ==
    \/ Contains(lower(s), <<"t","m","d","b","i","d">>)
    \/ Contains(lower(s), <<"t","m","d","b","-">>)

\* re.search(prefix + r'\d+\}', s) is not None
TagAt(s, i, prefix) ==
    LET d == i + Len(prefix)
    IN  /\ LitAt(s, i, prefix)
        /\ d <= Len(s) /\ IsDigit(s[d])
        /\ DigitsEnd(s, d) <= Len(s) /\ s[DigitsEnd(s, d)] = "}"

\* re.search(r"\{imdb-tt\d+\}", filename_lower) or re.search(r"\{tmdb-\d+\}", filename_lower)
has_standard_id_tag(original_filename_base) ==
    LET filename_lower == lower(original_filename_base)
    IN  \E i \in DOMAIN filename_lower :
            \/ TagAt(filename_lower, i, <<"{","i","m","d","b","-","t","t">>)
            \/ TagAt(filename_lower, i, <<"{","t","m","d","b","-">>)

\* x and x.lower() not in ["na", "n/a"], for an optional string x
has_valid(id) ==
    /\ id # None
    /\ Len(id[1]) > 0
    /\ lower(id[1]) \notin {<<"n","a">>, <<"n","/","a">>}

Desconocido == <<"D","e","s","c","o","n","o","c","i","d","o">>

\* element.get(name, 'Desconocido') for an optional attribute value
get_or_unknown(attr) == IF attr = None THEN Desconocido ELSE attr[1]

NotAvailable == <<"N","/","A">>

\* The tuple process_movie returns, as a record; status holds status_or_similarity when it is
\* a status string and "SIMILARITY" when it is the score, which is then in similarity.
\* This is the tuple of the returns that skip the item without identifiers (lines 291, 306
\* and 312).
skipped(file_path, base_name_from_file, status) ==
    [file_path |-> file_path, imdb_id |-> None, tmdb_id |-> None,
     title |-> None, year |-> None, base_name_from_file |-> base_name_from_file,
     skip_processing |-> TRUE, status |-> status, similarity |-> zero_score]

\* lines 286 to 301: the file name holds a TMDb marker and the metadata was fetched; ids is
\* what get_identifiers returned
tmdb_direct_rename(file_path, base_name_from_file, tmdb_id_extracted_from_filename, metadata_xml, ids) ==
    LET final_tmdb_id_for_object ==
            IF tmdb_id_extracted_from_filename # None
               /\ Len(tmdb_id_extracted_from_filename[1]) > 0
            THEN tmdb_id_extracted_from_filename
            ELSE ids.tmdb
        usable == has_valid(ids.imdb) \/ has_valid(final_tmdb_id_for_object)
    IN  [file_path |-> file_path, imdb_id |-> ids.imdb,
         tmdb_id |-> final_tmdb_id_for_object,
         title |-> Some(get_or_unknown(metadata_xml.title)),
         year |-> Some(get_or_unknown(metadata_xml.year)),
         base_name_from_file |-> base_name_from_file,
         skip_processing |-> ~usable,
         status |-> IF usable THEN "TMDB_DIRECT_RENAME" ELSE "NO_ID_FOR_TMDB_DIRECT_RENAME",
         similarity |-> zero_score]

\* lines 313 to 322 without the return of line 318
similarity_logic_unchecked(file_path, base_name_from_file, metadata_xml, ids) ==
    [file_path |-> file_path, imdb_id |-> ids.imdb, tmdb_id |-> ids.tmdb,
     title |-> Some(get_or_unknown(metadata_xml.title)),
     year |-> Some(get_or_unknown(metadata_xml.year)),
     base_name_from_file |-> base_name_from_file,
     skip_processing |-> FALSE, status |-> "SIMILARITY",
     similarity |-> calculate_similarity(lower(base_name_from_file),
                                         lower(get_or_unknown(metadata_xml.title)))]

\* lines 313 to 322: the file name holds neither a TMDb marker nor an identifier tag and the
\* metadata was fetched; ids is what get_identifiers returned
similarity_logic(file_path, base_name_from_file, metadata_xml, ids) ==
    IF ~has_valid(ids.imdb) /\ ~has_valid(ids.tmdb)
    THEN [skipped(file_path, base_name_from_file, "NO_ID_FOUND")
              EXCEPT !.imdb_id = ids.imdb, !.tmdb_id = ids.tmdb]
    ELSE [file_path |-> file_path, imdb_id |-> ids.imdb, tmdb_id |-> ids.tmdb,
          title |-> Some(get_or_unknown(metadata_xml.title)),
          year |-> Some(get_or_unknown(metadata_xml.year)),
          base_name_from_file |-> base_name_from_file,
          skip_processing |-> FALSE, status |-> "SIMILARITY",
          similarity |-> calculate_similarity(lower(base_name_from_file),
                                              lower(get_or_unknown(metadata_xml.title)))]

\* lines 273 to 322 once file_path, original_filename_base, the match of the TMDb pattern
\* and base_name_from_file are computed; metadata is the answer of plex_request to the
\* metadata request, None when the request failed
process_movie_logic(file_path, original_filename_base, tmdb_id_extracted_from_filename, base_name_from_file, metadata) ==
    IF tmdb_id_extracted_from_filename # None \/ tmdb_presence_match(original_filename_base)
    THEN IF metadata = None
         THEN skipped(file_path, base_name_from_file, "METADATA_ERROR_TMDB_DIRECT")
         ELSE tmdb_direct_rename(file_path, base_name_from_file, tmdb_id_extracted_from_filename,
                                 metadata[1], get_identifiers(metadata[1]))
    ELSE IF has_standard_id_tag(original_filename_base)
    THEN skipped(file_path, base_name_from_file, "ALREADY_FORMATTED_ID_TAG")
    ELSE IF metadata = None
    THEN skipped(file_path, base_name_from_file, "METADATA_ERROR")
    ELSE similarity_logic(file_path, base_name_from_file, metadata[1], get_identifiers(metadata[1]))

\* file_path of process_movie: the file attribute of the Part element, 'N/A' without it
file_path_of(video) == IF video.file = None THEN NotAvailable ELSE video.file[1]

\* process_movie(video) with the global WORDS_TO_REMOVE as a parameter
process_movie(video, words) ==
    process_movie_logic(file_path_of(video),
                        basename(file_path_of(video)),
                        tmdb_id_explicit_match(basename(file_path_of(video))),
                        extract_basename(file_path_of(video), words),
                        video.meta)

(***************************************************************************)
(* The decision of list_movie_files for one item                           *)
(***************************************************************************)
\* Python's truth value of an optional integer
Truthy(x) == x # None /\ x[1] # 0

\* int(year) if year and year.isdigit() else None
metadata_year_val(year) == IF isdigit(year) THEN Some(int(year)) ELSE None

\* year_match as lines 370 to 373 compute it
year_match(filename_year_val, metadata_year, YEAR_DIFF) ==
    IF Truthy(filename_year_val) /\ Truthy(metadata_year)
    THEN LET d == filename_year_val[1] - metadata_year[1]
             year_diff == IF d < 0 THEN -d ELSE d
         IN  year_diff <= YEAR_DIFF
    ELSE FALSE

\* id_for_filename_tag: the IMDb id if it is valid, else the TMDb id if it is valid, else ""
id_for_filename_tag(imdb_id, tmdb_id) ==
    IF has_valid(imdb_id) THEN <<"{","i","m","d","b","-">> \o imdb_id[1] \o <<"}">>
    ELSE IF has_valid(tmdb_id) THEN <<"{","t","m","d","b","-">> \o tmdb_id[1] \o <<"}">>
    ELSE << >>

\* sanitize_filename(f"{title} ({year}) {id_for_filename_tag}".strip())
new_name_sanitized(title, year, tag) ==
    sanitize_filename(strip(title \o <<" ","(">> \o year \o <<")"," ">> \o tag))

\* similarity_value >= threshold and similarity_value > threshold for the score num/den
AtLeast(similarity, threshold) ==
    \/ similarity.num > threshold * similarity.den
    \/ similarity.num = threshold * similarity.den /\ similarity.err >= 0

Above(similarity, threshold) ==
    \/ similarity.num > threshold * similarity.den
    \/ similarity.num = threshold * similarity.den /\ similarity.err > 0

\* auto_rename_triggered without the rule on the words of the title
auto_without_word_rule(is_tmdb_direct_rename, similarity, ymatch, title, base_name_from_file, AUTO) ==
    is_tmdb_direct_rename \/ (AtLeast(similarity, AUTO) /\ ymatch)

\* auto_rename_triggered without the branch of line 385
auto_by_similarity_only(is_tmdb_direct_rename, similarity, ymatch, title, base_name_from_file, AUTO) ==
    /\ AtLeast(similarity, AUTO) /\ ymatch
    /\ \/ WordCount(title) >= 2
       \/ WordCount(title) = 1 /\ WordCount(base_name_from_file) = 1

\* auto_rename_triggered as lines 384 to 391 compute it
auto_rename_triggered(is_tmdb_direct_rename, similarity, ymatch, title, base_name_from_file, AUTO) ==
    IF is_tmdb_direct_rename THEN TRUE
    ELSE IF AtLeast(similarity, AUTO) /\ ymatch
    THEN \/ WordCount(title) >= 2
         \/ WordCount(title) = 1 /\ WordCount(base_name_from_file) = 1
    ELSE FALSE

\* chosen_action with >= in place of > at line 396
chosen_action_at_least(is_tmdb_direct_rename, auto, similarity, ASK) ==
    IF auto THEN "AUTO_RENAME"
    ELSE IF AtLeast(similarity, ASK) /\ ~is_tmdb_direct_rename THEN "ASK_CONFIRM"
    ELSE "SKIP"

\* the branch lines 392 to 404 take: what is done with the item
chosen_action(is_tmdb_direct_rename, auto, similarity, ASK) ==
    IF auto THEN "AUTO_RENAME"
    ELSE IF Above(similarity, ASK) /\ ~is_tmdb_direct_rename THEN "ASK_CONFIRM"
    ELSE "SKIP"

\* what list_movie_files does with an item it does not rename and does not ask about
no_rename(r, reason, filename_year_val, meta_year, ymatch, is_tmdb_direct_rename) ==
    [action |-> "SKIP", reason |-> reason, similarity |-> r.similarity,
     year_match |-> ymatch, filename_year |-> filename_year_val,
     metadata_year |-> meta_year, new_name |-> None,
     is_tmdb_direct_rename |-> is_tmdb_direct_rename]

\* lines 381 to 404: the new name and the branch taken, for an item with an identifier tag
rename_decision(r, is_tmdb_direct_rename, filename_year_val, meta_year, ymatch, tag, auto, act) ==
    [action |-> act,
     reason |-> IF is_tmdb_direct_rename THEN "TMDB_DIRECT_RENAME"
                ELSE IF act = "AUTO_RENAME" THEN "SIMILARITY_AUTO"
                ELSE IF act = "ASK_CONFIRM" THEN "SIMILARITY_ASK"
                ELSE "INSUFFICIENT_SIMILARITY",
     similarity |-> r.similarity,
     year_match |-> ymatch,
     filename_year |-> filename_year_val,
     metadata_year |-> meta_year,
     new_name |-> Some(new_name_sanitized(r.title[1], r.year[1], tag)),
     is_tmdb_direct_rename |-> is_tmdb_direct_rename]

\* lines 346 to 404 once the years, year_match and the identifier tag are computed
decision_logic(r, is_tmdb_direct_rename, filename_year_val, meta_year, ymatch, tag, AUTO, ASK) ==
    IF r.skip_processing
    THEN no_rename(r, r.status, filename_year_val, meta_year, FALSE, FALSE)
    ELSE IF Len(tag) = 0
    THEN no_rename(r, "NO_VALID_ID_FOR_TAG", filename_year_val, meta_year, ymatch,
                   is_tmdb_direct_rename)
    ELSE rename_decision(r, is_tmdb_direct_rename, filename_year_val, meta_year, ymatch, tag,
             auto_rename_triggered(is_tmdb_direct_rename, r.similarity, ymatch,
                                   r.title[1], r.base_name_from_file, AUTO),
             chosen_action(is_tmdb_direct_rename,
                           auto_rename_triggered(is_tmdb_direct_rename, r.similarity, ymatch,
                                                 r.title[1], r.base_name_from_file, AUTO),
                           r.similarity, ASK))

\* year_match of the item from the two years
year_logic(r, is_tmdb_direct_rename, filename_year_val, meta_year, AUTO, ASK, YEAR_DIFF) ==
    decision_logic(r, is_tmdb_direct_rename, filename_year_val, meta_year,
                   year_match(filename_year_val, meta_year, YEAR_DIFF),
                   id_for_filename_tag(r.imdb_id, r.tmdb_id), AUTO, ASK)

\* the year taken from the name extract_basename returned
year_of_normalized_name(r) == extract_year_from_filename(r.base_name_from_file)

\* filename_year_val of line 368: extract_year_from_filename(os.path.basename(file_path))
filename_year_of(r) == extract_year_from_filename(basename(r.file_path))

\* The body of the loop of list_movie_files from the return of process_movie (r) to the
\* branch it takes: the action, why, and the values it was computed from.
item_decision(r, AUTO, ASK, YEAR_DIFF) ==
    year_logic(r, r.status = "TMDB_DIRECT_RENAME",
               filename_year_of(r),
               IF r.year = None THEN None ELSE metadata_year_val(r.year[1]),
               AUTO, ASK, YEAR_DIFF)

(***************************************************************************)
(* The file system: the stored names and, for each, which file it is.      *)
(* On a case-insensitive file system a name finds the entry that equals it *)
(* when letter case is ignored, and the entry keeps the case it was given. *)
(***************************************************************************)
same_path(ci, p, q) == IF ci THEN lower(p) = lower(q) ELSE p = q

\* an os.path.exists that finds every path
exists_always(fs, ci, p) == TRUE

\* os.path.exists
exists(fs, ci, p) == \E q \in DOMAIN fs : same_path(ci, q, p)

\* the stored name p names
stored(fs, ci, p) == CHOOSE q \in DOMAIN fs : same_path(ci, q, p)

\* os.remove of an existing file, when it succeeds
os_remove(fs, ci, p) ==
    [q \in DOMAIN fs \ {stored(fs, ci, p)} |-> fs[q]]

\* os.rename and os.replace of an existing source, when they succeed: the source is then
\* found under dst, whatever dst named before is gone
os_rename(fs, ci, src, dst) ==
    LET s == stored(fs, ci, src)
        gone == {s} \cup {q \in DOMAIN fs : same_path(ci, q, dst)}
    IN  [q \in (DOMAIN fs \ gone) \cup {dst} |-> IF q = dst THEN fs[s] ELSE fs[q]]

\* creating the files of paths in order, on an empty file system: a name that names a file
\* created before it creates nothing
create_all(ci, paths) ==
    LET created == {i \in DOMAIN paths : \A j \in 1..(i - 1) : ~same_path(ci, paths[j], paths[i])}
    IN  [q \in {paths[i] : i \in created} |-> q]

(***************************************************************************)
(* rename_file and log_rename                                              *)
(***************************************************************************)
\* new_path of rename_file
rename_target(file_path, new_name) ==
    join(dirname(file_path), new_name \o splitext_ext(file_path))

\* the test of line 226 made without regard to letter case
already_correct_ignoring_case(file_path, new_path) == lower(file_path) = lower(new_path)

\* line 226: file_path == new_path
already_correct(file_path, new_path) == file_path = new_path

\* the test of line 230 never taken
never_case_only(file_path, new_path) == FALSE

\* file_path.lower() == new_path.lower() and file_path != new_path
case_only(file_path, new_path) == lower(file_path) = lower(new_path) /\ file_path # new_path

\* temp_name of rename_file
temp_name_of(new_path) ==
    new_path \o <<".","r","e","n","a","m","i","n","g","_","t","e","m","p">>

\* log_rename writing its line twice
log_rename_twice(entries, now, old_path, new_path) ==
    entries \o <<[time |-> now, old_path |-> old_path, new_path |-> new_path],
                 [time |-> now, old_path |-> old_path, new_path |-> new_path]>>

\* log_rename: the log with the entry "[now] Renombrado: old_path -> new_path" appended
log_rename(entries, now, old_path, new_path) ==
    Append(entries, [time |-> now, old_path |-> old_path, new_path |-> new_path])

\* an except handler that writes a line for the failure
handler_log_failure(entries, now, old_path, error) ==
    Append(entries, [time |-> now, old_path |-> old_path, new_path |-> << >>])

\* lines 240 to 243 and 257 to 259: the log after an except handler of rename_file ran for
\* the error of one operation: the handlers print the error and write nothing
handler_log(entries, now, old_path, error) == entries

(***************************************************************************)
(* The items a run can meet: the Video elements of the listing, each with  *)
(* the file attribute of its Part and the answer to its metadata request   *)
(* (the Guid ids, the title and the year of the metadata).                 *)
(***************************************************************************)
\* "/m/Movie.Name.2019.mkv"; imdb://tt1, tmdb://7; "Movie Name" (2019)
V_exact ==
    [file |-> Some(<<"/","m","/","M","o","v","i","e",".","N","a","m","e",".","2","0","1","9",".","m","k","v">>),
     meta |-> Some([guids |-> <<<<"i","m","d","b",":","/","/","t","t","1">>, <<"t","m","d","b",":","/","/","7">>>>, title |-> Some(<<"M","o","v","i","e"," ","N","a","m","e">>), year |-> Some(<<"2","0","1","9">>)])]

\* "/m/Movie.Nam.2020.mkv"; imdb://tt1; "Movie Name" (2019)
V_near ==
    [file |-> Some(<<"/","m","/","M","o","v","i","e",".","N","a","m",".","2","0","2","0",".","m","k","v">>),
     meta |-> Some([guids |-> <<<<"i","m","d","b",":","/","/","t","t","1">>>>, title |-> Some(<<"M","o","v","i","e"," ","N","a","m","e">>), year |-> Some(<<"2","0","1","9">>)])]

\* "/m/Other.2017.mkv"; tmdb://7; "Movie Name" (2019)
V_far ==
    [file |-> Some(<<"/","m","/","O","t","h","e","r",".","2","0","1","7",".","m","k","v">>),
     meta |-> Some([guids |-> <<<<"t","m","d","b",":","/","/","7">>>>, title |-> Some(<<"M","o","v","i","e"," ","N","a","m","e">>), year |-> Some(<<"2","0","1","9">>)])]

\* "/m/Movie Name.mkv"; imdb://tt1; "Movie Name" (2019)
V_noyear ==
    [file |-> Some(<<"/","m","/","M","o","v","i","e"," ","N","a","m","e",".","m","k","v">>),
     meta |-> Some([guids |-> <<<<"i","m","d","b",":","/","/","t","t","1">>>>, title |-> Some(<<"M","o","v","i","e"," ","N","a","m","e">>), year |-> Some(<<"2","0","1","9">>)])]

\* "/m/Movie.Name.2019.1080p.mkv"; imdb://tt1; "Movie Name" (None)
V_nometayear ==
    [file |-> Some(<<"/","m","/","M","o","v","i","e",".","N","a","m","e",".","2","0","1","9",".","1","0","8","0","p",".","m","k","v">>),
     meta |-> Some([guids |-> <<<<"i","m","d","b",":","/","/","t","t","1">>>>, title |-> Some(<<"M","o","v","i","e"," ","N","a","m","e">>), year |-> None])]

\* "/m/Up.2009.mkv"; tmdb://7; "Up" (2009)
V_oneword ==
    [file |-> Some(<<"/","m","/","U","p",".","2","0","0","9",".","m","k","v">>),
     meta |-> Some([guids |-> <<<<"t","m","d","b",":","/","/","7">>>>, title |-> Some(<<"U","p">>), year |-> Some(<<"2","0","0","9">>)])]

\* "/m/Up X.2009.mkv"; tmdb://7; "Up" (2009)
V_onevsmany ==
    [file |-> Some(<<"/","m","/","U","p"," ","X",".","2","0","0","9",".","m","k","v">>),
     meta |-> Some([guids |-> <<<<"t","m","d","b",":","/","/","7">>>>, title |-> Some(<<"U","p">>), year |-> Some(<<"2","0","0","9">>)])]

\* "/m/Movie Name (2019) {imdb-tt1}.mkv"; imdb://tt1; "Movie Name" (2019)
V_imdbtag ==
    [file |-> Some(<<"/","m","/","M","o","v","i","e"," ","N","a","m","e"," ","(","2","0","1","9",")"," ","{","i","m","d","b","-","t","t","1","}",".","m","k","v">>),
     meta |-> Some([guids |-> <<<<"i","m","d","b",":","/","/","t","t","1">>>>, title |-> Some(<<"M","o","v","i","e"," ","N","a","m","e">>), year |-> Some(<<"2","0","1","9">>)])]

\* "/m/Heat (1995) {tmdb-7}.mkv"; imdb://tt2, tmdb://7; "Heat" (1995)
V_tmdbtag ==
    [file |-> Some(<<"/","m","/","H","e","a","t"," ","(","1","9","9","5",")"," ","{","t","m","d","b","-","7","}",".","m","k","v">>),
     meta |-> Some([guids |-> <<<<"i","m","d","b",":","/","/","t","t","2">>, <<"t","m","d","b",":","/","/","7">>>>, title |-> Some(<<"H","e","a","t">>), year |-> Some(<<"1","9","9","5">>)])]

\* "/m/x tmdbid=7.mkv"; no Guid; "Heat" (1995)
V_tmdbid ==
    [file |-> Some(<<"/","m","/","x"," ","t","m","d","b","i","d","=","7",".","m","k","v">>),
     meta |-> Some([guids |-> <<>>, title |-> Some(<<"H","e","a","t">>), year |-> Some(<<"1","9","9","5">>)])]

\* "/m/x tmdbid.mkv"; no Guid; "Heat" (1995)
V_marker ==
    [file |-> Some(<<"/","m","/","x"," ","t","m","d","b","i","d",".","m","k","v">>),
     meta |-> Some([guids |-> <<>>, title |-> Some(<<"H","e","a","t">>), year |-> Some(<<"1","9","9","5">>)])]

\* "/m/Heat.1995.mkv"; imdb://na; "Heat" (1995)
V_noid ==
    [file |-> Some(<<"/","m","/","H","e","a","t",".","1","9","9","5",".","m","k","v">>),
     meta |-> Some([guids |-> <<<<"i","m","d","b",":","/","/","n","a">>>>, title |-> Some(<<"H","e","a","t">>), year |-> Some(<<"1","9","9","5">>)])]

\* "/m/Heat.1996.mkv"; request failed
V_nometa ==
    [file |-> Some(<<"/","m","/","H","e","a","t",".","1","9","9","6",".","m","k","v">>),
     meta |-> None]

\* "/m/up (2009) {TMDB-7}.mkv"; tmdb://7; "Up" (2009)
V_caseonly ==
    [file |-> Some(<<"/","m","/","u","p"," ","(","2","0","0","9",")"," ","{","T","M","D","B","-","7","}",".","m","k","v">>),
     meta |-> Some([guids |-> <<<<"t","m","d","b",":","/","/","7">>>>, title |-> Some(<<"U","p">>), year |-> Some(<<"2","0","0","9">>)])]

\* "/m/Up (2009) {tmdb-7}.mkv"; tmdb://7; "Up" (2009)
V_correct ==
    [file |-> Some(<<"/","m","/","U","p"," ","(","2","0","0","9",")"," ","{","t","m","d","b","-","7","}",".","m","k","v">>),
     meta |-> Some([guids |-> <<<<"t","m","d","b",":","/","/","7">>>>, title |-> Some(<<"U","p">>), year |-> Some(<<"2","0","0","9">>)])]

\* "/m/Gone.Girl.2014.mkv"; imdb://tt3; "Gone Girl" (2014)
V_gone ==
    [file |-> Some(<<"/","m","/","G","o","n","e",".","G","i","r","l",".","2","0","1","4",".","m","k","v">>),
     meta |-> Some([guids |-> <<<<"i","m","d","b",":","/","/","t","t","3">>>>, title |-> Some(<<"G","o","n","e"," ","G","i","r","l">>), year |-> Some(<<"2","0","1","4">>)])]

Videos ==
    {V_exact, V_near, V_far, V_noyear, V_nometayear, V_oneword,
     V_onevsmany, V_imdbtag, V_tmdbtag, V_tmdbid, V_marker, V_noid,
     V_nometa, V_caseonly, V_correct, V_gone}

\* "/m/Heat.x.1995.mkv"; tmdb://7; "Heat" (1995)
V_ask_edge ==
    [file |-> Some(<<"/","m","/","H","e","a","t",".","x",".","1","9","9","5",".","m","k","v">>),
     meta |-> Some([guids |-> <<<<"t","m","d","b",":","/","/","7">>>>, title |-> Some(<<"H","e","a","t">>), year |-> Some(<<"1","9","9","5">>)])]

\* "/m/Movie.Nzme.2019.mkv"; imdb://tt1; "Movie Name" (2019)
V_auto_edge ==
    [file |-> Some(<<"/","m","/","M","o","v","i","e",".","N","z","m","e",".","2","0","1","9",".","m","k","v">>),
     meta |-> Some([guids |-> <<<<"i","m","d","b",":","/","/","t","t","1">>>>, title |-> Some(<<"M","o","v","i","e"," ","N","a","m","e">>), year |-> Some(<<"2","0","1","9">>)])]

\* "/m/Abcdefg.qrstuvwxyz.1999.mkv"; imdb://tt4; "Abcdefg" (1999)
V_float_edge ==
    [file |-> Some(<<"/","m","/","A","b","c","d","e","f","g",".","q","r","s","t","u","v","w","x","y","z",".","1","9","9","9",".","m","k","v">>),
     meta |-> Some([guids |-> <<<<"i","m","d","b",":","/","/","t","t","4">>>>, title |-> Some(<<"A","b","c","d","e","f","g">>), year |-> Some(<<"1","9","9","9">>)])]

\* "/m/Movie.Name.2017.mkv"; imdb://tt1; "Movie Name" (2019)
V_twoyears ==
    [file |-> Some(<<"/","m","/","M","o","v","i","e",".","N","a","m","e",".","2","0","1","7",".","m","k","v">>),
     meta |-> Some([guids |-> <<<<"i","m","d","b",":","/","/","t","t","1">>>>, title |-> Some(<<"M","o","v","i","e"," ","N","a","m","e">>), year |-> Some(<<"2","0","1","9">>)])]

\* "/m/Movie.Name.2019.avi"; imdb://tt1; "Movie Name" (c.2019)
V_badyear ==
    [file |-> Some(<<"/","m","/","M","o","v","i","e",".","N","a","m","e",".","2","0","1","9",".","a","v","i">>),
     meta |-> Some([guids |-> <<<<"i","m","d","b",":","/","/","t","t","1">>>>, title |-> Some(<<"M","o","v","i","e"," ","N","a","m","e">>), year |-> Some(<<"c",".","2","0","1","9">>)])]

\* "/m/Movie.Name.1900.mkv"; imdb://tt1; "Movie Name" (0)
V_zeroyear ==
    [file |-> Some(<<"/","m","/","M","o","v","i","e",".","N","a","m","e",".","1","9","0","0",".","m","k","v">>),
     meta |-> Some([guids |-> <<<<"i","m","d","b",":","/","/","t","t","1">>>>, title |-> Some(<<"M","o","v","i","e"," ","N","a","m","e">>), year |-> Some(<<"0">>)])]

\* "/m/Face.Off.1997.mkv"; tmdb://7; " Face/Off : "A*B" <C\D>|E? " (1997)
V_illegal ==
    [file |-> Some(<<"/","m","/","F","a","c","e",".","O","f","f",".","1","9","9","7",".","m","k","v">>),
     meta |-> Some([guids |-> <<<<"t","m","d","b",":","/","/","7">>>>, title |-> Some(<<" ","F","a","c","e","/","O","f","f"," ",":"," ","\"","A","*","B","\""," ","<","C","\\","D",">","|","E","?"," ">>), year |-> Some(<<"1","9","9","7">>)])]

\* no Part element; tmdb://7; "A.I." (2001)
V_nopart ==
    [file |-> None,
     meta |-> Some([guids |-> <<<<"t","m","d","b",":","/","/","7">>>>, title |-> Some(<<"A",".","I",".">>), year |-> Some(<<"2","0","0","1">>)])]

\* "/m/zz TMDB-.mkv"; tmdb://7; "Heat" (1995)
V_marker_tmdb ==
    [file |-> Some(<<"/","m","/","z","z"," ","T","M","D","B","-",".","m","k","v">>),
     meta |-> Some([guids |-> <<<<"t","m","d","b",":","/","/","7">>>>, title |-> Some(<<"H","e","a","t">>), year |-> Some(<<"1","9","9","5">>)])]

\* "/m/zz tmdb-9.mkv"; tmdb://7; "Heat" (1995)
V_other_tmdb ==
    [file |-> Some(<<"/","m","/","z","z"," ","t","m","d","b","-","9",".","m","k","v">>),
     meta |-> Some([guids |-> <<<<"t","m","d","b",":","/","/","7">>>>, title |-> Some(<<"H","e","a","t">>), year |-> Some(<<"1","9","9","5">>)])]

\* videos whose score or years lie on the edge of a threshold: the score is exactly 80, exactly
\* 90, a float just above 56, the years differ by 2, the year of the metadata is no number,
\* the year of the metadata is 0; a video whose title has every character sanitize_filename
\* removes and spaces around them, and a video without Part element, whose file_path is
\* "N/A" (line 271), a path without extension; a video whose file name holds the TMDb
\* marker without an id while the metadata has a TMDb id, and one whose file name holds
\* another TMDb id than the metadata
EdgeVideos ==
    {V_ask_edge, V_auto_edge, V_float_edge, V_twoyears, V_badyear, V_zeroyear, V_illegal,
     V_nopart, V_marker_tmdb, V_other_tmdb}

\* the videos of a listing that holds both
AllVideos == Videos \cup EdgeVideos

(***************************************************************************)
(* The configuration: config.json as load_config_file returns it. A key is *)
(* None when the file does not hold it; a value is a JSON integer, string  *)
(* or list.                                                                *)
(***************************************************************************)
JInt(n) == [type |-> "int", v |-> n]

JStr(s) == [type |-> "str", v |-> s]

JList(l) == [type |-> "list", v |-> l]

default_words_to_remove ==
    <<<<"7","2","0","p">>,
      <<"1","0","8","0","p">>,
      <<"2","1","6","0","p">>,
      <<"4","k">>,
      <<"4","8","0","p">>,
      <<"d","v","d">>,
      <<"x","v","i","d">>,
      <<"m","p","3">>,
      <<"a","c","3">>,
      <<"6","c","h">>,
      <<"5",".","1">>,
      <<"b","l","u","r","a","y">>,
      <<"w","e","b","-","d","l">>,
      <<"w","e","b","r","i","p">>,
      <<"h","d","t","v">>,
      <<"h","d","r","i","p">>,
      <<"x","2","6","4">>,
      <<"h","2","6","4">>,
      <<"x","2","6","5">>,
      <<"h","e","v","c">>,
      <<"e","x","t","e","n","d","e","d">>,
      <<"u","n","c","u","t">>,
      <<"r","e","m","a","s","t","e","r","e","d">>,
      <<"d","i","r","e","c","t","o","r","'","s"," ","c","u","t">>,
      <<"f","i","n","a","l"," ","c","u","t">>,
      <<"m","u","l","t","i">>,
      <<"d","u","a","l">>>>

DEFAULT_SIMILARITY_AUTO == 100

DEFAULT_SIMILARITY_ASK == 85

DEFAULT_YEAR_DIFF_AUTO == 1

\* int(x) of a JSON integer or string: None when it raises ValueError
to_int(x) ==
    IF x.type = "int" THEN Some(x.v)
    ELSE LET t == strip(x.v)
             signed == Len(t) > 0 /\ t[1] \in {"-", "+"}
             digits == IF signed THEN Tail(t) ELSE t
         IN  IF x.type = "str" /\ isdigit(digits)
             THEN Some(IF signed /\ t[1] = "-" THEN 0 - int(digits) ELSE int(digits))
             ELSE None

\* config_data.get(key, default)
get(value, default) == IF value = None THEN default ELSE value[1]

\* verify_and_load_config: what it returns (ok) and the globals as it leaves them, g being
\* the globals as it finds them. An assignment that raises leaves its global and the later
\* ones as they were.
verify_and_load_config(config_data, g) ==
    LET words == get(config_data.WORDS_TO_REMOVE_FROM_FILENAME, JList(default_words_to_remove))
        auto  == to_int(get(config_data.SIMILARITY_THRESHOLD_AUTO, JInt(DEFAULT_SIMILARITY_AUTO)))
        ask   == to_int(get(config_data.SIMILARITY_THRESHOLD_ASK, JInt(DEFAULT_SIMILARITY_ASK)))
        diff  == to_int(get(config_data.YEAR_MATCH_DIFFERENCE_AUTO, JInt(DEFAULT_YEAR_DIFF_AUTO)))
        g1 == [g EXCEPT !.WORDS_TO_REMOVE = words]
        g2 == [g1 EXCEPT !.SIMILARITY_AUTO = auto[1]]
        g3 == [g2 EXCEPT !.SIMILARITY_ASK = ask[1]]
        g4 == [g3 EXCEPT !.YEAR_DIFF_AUTO = diff[1]]
    IN  IF ~config_data.PLEX_BASE_URL \/ ~config_data.PLEX_TOKEN THEN [ok |-> FALSE, g |-> g]
        ELSE IF auto = None THEN [ok |-> FALSE, g |-> g1]
        ELSE IF ask = None THEN [ok |-> FALSE, g |-> g2]
        ELSE IF diff = None THEN [ok |-> FALSE, g |-> g3]
        ELSE IF ~(0 <= auto[1] /\ auto[1] <= 100 /\ 0 <= ask[1] /\ ask[1] <= 100)
        THEN [ok |-> FALSE, g |-> g4]
        ELSE IF words.type # "list" THEN [ok |-> FALSE, g |-> g4]
        ELSE [ok |-> TRUE, g |-> g4]

\* a config.json that holds the two required keys and these four values
Config(words, auto, ask, diff) ==
    [PLEX_BASE_URL |-> TRUE, PLEX_TOKEN |-> TRUE,
     WORDS_TO_REMOVE_FROM_FILENAME |-> words,
     SIMILARITY_THRESHOLD_AUTO |-> auto,
     SIMILARITY_THRESHOLD_ASK |-> ask,
     YEAR_MATCH_DIFFERENCE_AUTO |-> diff]

\* the contents of config.json a run is checked with
ConfigFiles ==
    <<Config(None, None, None, None),
      Config(Some(JList(<<<<"1","0","8","0","p">>, <<"b","l","u","r","a","y">>, <<"x","2","6","4">>>>)),
            Some(JInt(100)), Some(JInt(85)), Some(JInt(0))),
      Config(Some(JList(<< >>)), Some(JInt(0)), Some(JStr(<<"8","5">>)), Some(JStr(<<"-","1">>))),
      Config(None, Some(JInt(101)), None, None),
      Config(None, None, Some(JStr(<<"h","i","g","h">>)), None),
      Config(Some(JStr(<<"d","v","d">>)), None, None, None),
      [Config(None, None, None, None) EXCEPT !.PLEX_TOKEN = FALSE]>>

\* the word lists WORDS_TO_REMOVE holds after verify_and_load_config accepted one of
\* ConfigFiles (a value that is not a list is rejected at line 83)
WordLists ==
    LET accepted(k) ==
            verify_and_load_config(ConfigFiles[k],
                [WORDS_TO_REMOVE |-> JList(<< >>), SIMILARITY_AUTO |-> DEFAULT_SIMILARITY_AUTO,
                 SIMILARITY_ASK |-> DEFAULT_SIMILARITY_ASK, YEAR_DIFF_AUTO |-> DEFAULT_YEAR_DIFF_AUTO])
    IN  {accepted(k).g.WORDS_TO_REMOVE.v : k \in {j \in DOMAIN ConfigFiles : accepted(j).ok}}

\* process_movie(video_item) of line 344 for every video of the listing and every word
\* list, computed once
processed ==
    {[words |-> words, video |-> v, result |-> process_movie(v, words)] :
        words \in WordLists, v \in AllVideos}

\* what process_movie returns for v while WORDS_TO_REMOVE is words
process_movie_of(v, words) ==
    (CHOOSE p \in processed : p.words = words /\ p.video = v).result

(***************************************************************************)
(* The state of a run                                                      *)
(***************************************************************************)
\* the videos of the listing one run handles at most
MaxItems == 2

\* the answers other than 's' and 'n' one prompt gets at most
MaxInvalid == 1

VARIABLES
    pc,                 \* where the run stands
    WORDS_TO_REMOVE,    \* the four globals verify_and_load_config sets
    SIMILARITY_AUTO,
    SIMILARITY_ASK,
    YEAR_DIFF_AUTO,
    case_insensitive,   \* whether the file system ignores letter case
    files,              \* the file system: stored name -> the file it holds
    log,                \* the lines of rename.log written by this run
    clock,              \* datetime.datetime.now()
    item_no,            \* i of the loop of list_movie_files, over the whole listing
    video_item,         \* video_item of the loop of list_movie_files
    result,             \* what process_movie returned for video_item
    decision,           \* the branch list_movie_files takes for video_item
    confirm,            \* the answer to "¿Desea renombrar este archivo?", "" before it
    call,               \* the call of rename_file for video_item
    invalid,            \* the invalid answers the current prompt has got
    sections            \* what the server lists: the sections and the videos of each, where
                        \* the run walks through a whole listing; None where the videos
                        \* are drawn one by one

vars == <<pc, WORDS_TO_REMOVE, SIMILARITY_AUTO, SIMILARITY_ASK, YEAR_DIFF_AUTO,
          case_insensitive, files, log, clock, item_no, video_item, result, decision,
          confirm, call, invalid, sections>>

globals == <<WORDS_TO_REMOVE, SIMILARITY_AUTO, SIMILARITY_ASK, YEAR_DIFF_AUTO>>

item == <<video_item, result, decision, confirm>>

\* for word in WORDS_TO_REMOVE
words_of(W) == IF W.type = "list" THEN W.v ELSE [i \in DOMAIN W.v |-> <<W.v[i]>>]

NoVideo == [file |-> None, meta |-> None]

NoResult ==
    [file_path |-> << >>, imdb_id |-> None, tmdb_id |-> None, title |-> None, year |-> None,
     base_name_from_file |-> << >>, skip_processing |-> TRUE, status |-> "NONE",
     similarity |-> zero_score]

NoDecision ==
    [action |-> "NONE", reason |-> "NONE", similarity |-> zero_score,
     year_match |-> FALSE, filename_year |-> None, metadata_year |-> None,
     new_name |-> None, is_tmdb_direct_rename |-> FALSE]

\* rename_file has not been called for the item. outcome is what the call came to: RENAMED
\* (it returned True), ALREADY_CORRECT, SKIPPED_EXISTS or FAILED (it returned False at lines
\* 228, 250, 243 or 259) or RAISED (an exception left it); overwrite is the answer to "¿Desea
\* sobreescribirlo?"; ops are the file operations and log writes that succeeded, in order;
\* error is the operation that raised; files0 and log0 are the file system and the log as
\* the call found them.
NoCall(fs, entries) ==
    [active |-> FALSE, file_path |-> << >>, new_path |-> << >>, outcome |-> "NONE",
     overwrite |-> "", ops |-> << >>, error |-> "", files0 |-> fs, log0 |-> entries]

\* files that are on disk when the run starts: the files of the videos whose name is
\* not yet the one the metadata gives, but V_gone's, created in this order
LibraryFiles ==
    <<V_exact.file[1], V_near.file[1], V_far.file[1], V_noyear.file[1], V_nometayear.file[1],
      V_oneword.file[1], V_onevsmany.file[1], V_tmdbtag.file[1], V_tmdbid.file[1],
      V_marker.file[1], V_noid.file[1], V_nometa.file[1], V_caseonly.file[1]>>

\* files that may be on disk as well: the two that already have the name the metadata
\* gives, and a temporary name an earlier case-only rename left behind
OtherFiles ==
    <<V_imdbtag.file[1], V_correct.file[1], temp_name_of(V_correct.file[1])>>

Init ==
    /\ sections = None
    /\ pc = "main"
    /\ WORDS_TO_REMOVE = JList(<< >>)
    /\ SIMILARITY_AUTO = DEFAULT_SIMILARITY_AUTO
    /\ SIMILARITY_ASK = DEFAULT_SIMILARITY_ASK
    /\ YEAR_DIFF_AUTO = DEFAULT_YEAR_DIFF_AUTO
    /\ case_insensitive \in BOOLEAN
    /\ \E others \in {<< >>, OtherFiles} :
           files = create_all(case_insensitive, LibraryFiles \o others)
    /\ log = << >>
    /\ clock = 0
    /\ item_no = 0
    /\ video_item = NoVideo
    /\ result = NoResult
    /\ decision = NoDecision
    /\ confirm = ""
    /\ call = NoCall(files, log)
    /\ invalid = 0

(***************************************************************************)
(* __main__ and list_movie_files                                           *)
(***************************************************************************)
\* lines 411 to 424: the configuration is loaded and verified, and the run goes on to
\* list_movie_files or exits
main ==
    /\ pc = "main"
    /\ \/ \* load_config_file returned None
          /\ pc' = "exit"
          /\ UNCHANGED globals
       \/ \E k \in DOMAIN ConfigFiles :
              LET r == verify_and_load_config(ConfigFiles[k],
                           [WORDS_TO_REMOVE |-> WORDS_TO_REMOVE, SIMILARITY_AUTO |-> SIMILARITY_AUTO,
                            SIMILARITY_ASK |-> SIMILARITY_ASK, YEAR_DIFF_AUTO |-> YEAR_DIFF_AUTO])
              IN  /\ WORDS_TO_REMOVE' = r.g.WORDS_TO_REMOVE
                  /\ SIMILARITY_AUTO' = r.g.SIMILARITY_AUTO
                  /\ SIMILARITY_ASK' = r.g.SIMILARITY_ASK
                  /\ YEAR_DIFF_AUTO' = r.g.YEAR_DIFF_AUTO
                  /\ pc' = IF r.ok THEN "list" ELSE "exit"
    /\ UNCHANGED <<sections, case_insensitive, files, log, clock, item_no, item, call, invalid>>

\* lines 327 to 341: the sections and their videos are fetched, or the run ends
list_movie_files ==
    /\ pc = "list"
    /\ \E sections_fetched \in BOOLEAN : pc' = IF sections_fetched THEN "loop" ELSE "done"
    /\ UNCHANGED <<globals, sections, case_insensitive, files, log, clock, item_no, item, call,
                   invalid>>

\* lines 342 to 404 for the next video of the listing, up to the point where the item is
\* skipped, the operator is asked, or rename_file is called
process_video(listing) ==
    /\ pc = "loop"
    /\ item_no < MaxItems
    /\ \E v \in listing :
           /\ video_item' = v
           /\ result' = process_movie_of(v, words_of(WORDS_TO_REMOVE))
           /\ decision' = item_decision(result', SIMILARITY_AUTO, SIMILARITY_ASK, YEAR_DIFF_AUTO)
           /\ pc' = CASE decision'.action = "AUTO_RENAME" -> "rename_file"
                      [] decision'.action = "ASK_CONFIRM" -> "confirm"
                      [] OTHER -> "loop"
    /\ item_no' = item_no + 1
    /\ confirm' = ""
    /\ call' = NoCall(files, log)
    /\ invalid' = 0
    /\ UNCHANGED <<globals, sections, case_insensitive, files, log, clock>>

next_video == process_video(Videos)

\* the listing has no further video: list_movie_files returns
end_of_listing ==
    /\ pc = "loop"
    /\ pc' = "done"
    /\ UNCHANGED <<globals, sections, case_insensitive, files, log, clock, item_no, item, call,
                   invalid>>

\* lines the operator may type at a prompt
Answers ==
    {<<"s">>, <<"S">>, <<" ", "s", " ">>, <<"n">>, <<"N", " ">>, << >>, <<" ">>, <<"x">>,
     <<"s", "i">>, <<"s", "n">>, <<"y">>}

\* line 398: input(...).strip().lower()
answer_of(line) == lower(strip(line))

\* a prompt loop that ends on every answer
prompt_ends_always(answer) == TRUE

\* line 399: confirm in ['s', 'n']
prompt_ends(answer) == answer \in {<<"s">>, <<"n">>}

\* lines 397 to 402: the operator answers the question whether to rename; the loop goes
\* round until the answer is s or n, and rename_file is called on s
confirm_prompt ==
    /\ pc = "confirm"
    /\ \E line \in Answers :
           LET answer == answer_of(line)
           IN  IF prompt_ends(answer)
               THEN /\ confirm' = (IF answer = <<"s">> THEN "s"
                                   ELSE IF answer = <<"n">> THEN "n" ELSE "other")
                    /\ pc' = IF answer = <<"s">> THEN "rename_file" ELSE "loop"
                    /\ invalid' = 0
               ELSE /\ invalid < MaxInvalid
                    /\ invalid' = invalid + 1
                    /\ UNCHANGED <<pc, confirm>>
    /\ UNCHANGED <<globals, sections, case_insensitive, files, log, clock, item_no, video_item, result,
                   decision, call>>

(***************************************************************************)
(* rename_file(file_path, new_name_sanitized), step by step: a step is one *)
(* file operation, one log write or one answer of the operator. A file     *)
(* operation on an existing source succeeds or raises; on a missing source *)
(* it raises.                                                              *)
(***************************************************************************)
\* the exception that left rename_file aborts the run instead of being caught at line 405
abort_on_exception(outcome) == IF outcome = "RAISED" THEN "done" ELSE "loop"

\* lines 391, 402 and 405 to 409: where the run stands once rename_file has ended. Its
\* return value is not used, and an exception that leaves it is caught by the handler of
\* line 405 inside the for loop of line 342, which goes on with the next video
after_rename_file(outcome) == "loop"

done(outcome) == [call EXCEPT !.active = FALSE, !.outcome = outcome]

did(op) == [call EXCEPT !.ops = Append(@, op)]

\* lines 224 to 230: the target is computed and the call returns, takes the case-only
\* branch, asks before overwriting, or goes on to os.replace
rename_file ==
    /\ pc = "rename_file"
    /\ LET file_path == result.file_path
           new_path == rename_target(file_path, decision.new_name[1])
           c == [NoCall(files, log) EXCEPT !.active = TRUE, !.file_path = file_path,
                                           !.new_path = new_path]
       IN  IF already_correct(file_path, new_path)
           THEN /\ call' = [c EXCEPT !.active = FALSE, !.outcome = "ALREADY_CORRECT"]
                /\ pc' = after_rename_file("ALREADY_CORRECT")
           ELSE /\ call' = c
                /\ pc' = IF ~exists(files, case_insensitive, new_path) THEN "os_replace"
                         ELSE IF ~case_only(file_path, new_path) THEN "overwrite"
                         ELSE IF exists(files, case_insensitive, temp_name_of(new_path))
                         THEN "case_remove"
                         ELSE "case_rename_temp"
    /\ invalid' = 0
    /\ UNCHANGED <<globals, sections, case_insensitive, files, log, clock, item_no, item>>

\* line 233: os.remove(temp_name)
case_remove ==
    /\ pc = "case_remove"
    /\ \/ /\ files' = os_remove(files, case_insensitive, temp_name_of(call.new_path))
          /\ call' = did("remove_temp")
          /\ pc' = "case_rename_temp"
       \/ /\ call' = [call EXCEPT !.error = "remove_temp"]
          /\ pc' = "case_except"
          /\ UNCHANGED files
    /\ UNCHANGED <<globals, sections, case_insensitive, log, clock, item_no, item, invalid>>

\* line 234: os.rename(file_path, temp_name)
case_rename_temp ==
    /\ pc = "case_rename_temp"
    /\ \/ /\ exists(files, case_insensitive, call.file_path)
          /\ files' = os_rename(files, case_insensitive, call.file_path,
                                temp_name_of(call.new_path))
          /\ call' = did("rename_to_temp")
          /\ pc' = "case_rename_final"
       \/ /\ call' = [call EXCEPT !.error = "rename_to_temp"]
          /\ pc' = "case_except"
          /\ UNCHANGED files
    /\ UNCHANGED <<globals, sections, case_insensitive, log, clock, item_no, item, invalid>>

\* line 235: os.rename(temp_name, new_path)
case_rename_final ==
    /\ pc = "case_rename_final"
    /\ \/ /\ files' = os_rename(files, case_insensitive, temp_name_of(call.new_path),
                                call.new_path)
          /\ call' = did("rename_to_final")
          /\ pc' = "case_log"
       \/ /\ call' = [call EXCEPT !.error = "rename_to_final"]
          /\ pc' = "case_except"
          /\ UNCHANGED files
    /\ UNCHANGED <<globals, sections, case_insensitive, log, clock, item_no, item, invalid>>

\* lines 238 and 239: log_rename(file_path, new_path), then return True
case_log ==
    /\ pc = "case_log"
    /\ clock' = clock + 1
    /\ \/ /\ log' = log_rename(log, clock, call.file_path, call.new_path)
          /\ call' = [did("log") EXCEPT !.active = FALSE, !.outcome = "RENAMED"]
          /\ pc' = after_rename_file("RENAMED")
       \/ /\ call' = [call EXCEPT !.error = "log"]
          /\ pc' = "case_except"
          /\ UNCHANGED log
    /\ UNCHANGED <<globals, sections, case_insensitive, files, item_no, item, invalid>>

\* a handler that leaves the file where the failure left it
restore_never(fs, ci, temp_path, file_path) == FALSE

\* line 242: the handler renames the temporary file back when it exists and nothing is
\* found at the original path
restore_needed(fs, ci, temp_path, file_path) ==
    exists(fs, ci, temp_path) /\ ~exists(fs, ci, file_path)

\* lines 240 to 243: the handler of the case-only branch; the os.rename that restores the
\* original name can raise as well, and the exception then leaves rename_file and is caught
\* at line 405
case_except ==
    /\ pc = "case_except"
    /\ LET temp_name == temp_name_of(call.new_path)
       IN  IF restore_needed(files, case_insensitive, temp_name, call.file_path)
           THEN \/ /\ files' = os_rename(files, case_insensitive, temp_name, call.file_path)
                   /\ call' = [did("restore") EXCEPT !.active = FALSE, !.outcome = "FAILED"]
                \/ /\ call' = [call EXCEPT !.active = FALSE, !.outcome = "RAISED"]
                   /\ UNCHANGED files
           ELSE /\ call' = done("FAILED")
                /\ UNCHANGED files
    /\ log' = handler_log(log, clock, call.file_path, call.error)
    /\ pc' = after_rename_file(call'.outcome)
    /\ UNCHANGED <<globals, sections, case_insensitive, clock, item_no, item, invalid>>

\* lines 244 to 250: the operator answers the question whether to overwrite new_path
overwrite_prompt ==
    /\ pc = "overwrite"
    /\ \/ /\ call' = [call EXCEPT !.overwrite = "s"]
          /\ pc' = "os_replace"
          /\ invalid' = 0
       \/ /\ call' = [call EXCEPT !.overwrite = "n", !.active = FALSE,
                                  !.outcome = "SKIPPED_EXISTS"]
          /\ pc' = after_rename_file("SKIPPED_EXISTS")
          /\ invalid' = 0
       \/ /\ invalid < MaxInvalid
          /\ invalid' = invalid + 1
          /\ UNCHANGED <<pc, call>>
    /\ UNCHANGED <<globals, sections, case_insensitive, files, log, clock, item_no, item>>

\* line 252: os.replace(file_path, new_path)
os_replace ==
    /\ pc = "os_replace"
    /\ \/ /\ exists(files, case_insensitive, call.file_path)
          /\ files' = os_rename(files, case_insensitive, call.file_path, call.new_path)
          /\ call' = did("replace")
          /\ pc' = "replace_log"
          /\ UNCHANGED log
       \/ /\ call' = [call EXCEPT !.error = "replace", !.active = FALSE, !.outcome = "FAILED"]
          /\ log' = handler_log(log, clock, call.file_path, "replace")
          /\ pc' = after_rename_file("FAILED")
          /\ UNCHANGED files
    /\ UNCHANGED <<globals, sections, case_insensitive, clock, item_no, item, invalid>>

\* lines 255 to 259: log_rename(file_path, new_path), then return True; if the write raises,
\* the handler of line 257 returns False
replace_log ==
    /\ pc = "replace_log"
    /\ clock' = clock + 1
    /\ \/ /\ log' = log_rename(log, clock, call.file_path, call.new_path)
          /\ call' = [did("log") EXCEPT !.active = FALSE, !.outcome = "RENAMED"]
       \/ /\ call' = [call EXCEPT !.error = "log", !.active = FALSE, !.outcome = "FAILED"]
          /\ log' = handler_log(log, clock, call.file_path, "log")
    /\ pc' = after_rename_file(call'.outcome)
    /\ UNCHANGED <<globals, sections, case_insensitive, files, item_no, item, invalid>>

Next ==
    \/ main
    \/ list_movie_files
    \/ next_video
    \/ end_of_listing
    \/ confirm_prompt
    \/ rename_file
    \/ case_remove
    \/ case_rename_temp
    \/ case_rename_final
    \/ case_log
    \/ case_except
    \/ overwrite_prompt
    \/ os_replace
    \/ replace_log

Spec == Init /\ [][Next]_vars


(***************************************************************************)
(* The decision of one item under every pair of thresholds: the run stands *)
(* before the last video of a listing, with thresholds and a year          *)
(* difference verify_and_load_config accepts, and the video is any of      *)
(* Videos and EdgeVideos.                                                  *)
(***************************************************************************)
\* values of SIMILARITY_THRESHOLD_AUTO and SIMILARITY_THRESHOLD_ASK: the ends of the range
\* line 78 accepts, the defaults, and the scores of the videos
Thresholds == {0, 55, 56, 80, 85, 90, 100}

\* values of YEAR_MATCH_DIFFERENCE_AUTO, which line 78 does not restrict: 1900 is a
\* difference no two years of file names exceed
YearDiffs == {0, 1, 2, 1900}

\* the files of EdgeVideos that have one
EdgeFiles ==
    <<V_ask_edge.file[1], V_auto_edge.file[1], V_float_edge.file[1], V_twoyears.file[1],
      V_badyear.file[1], V_zeroyear.file[1], V_illegal.file[1], V_marker_tmdb.file[1],
      V_other_tmdb.file[1]>>

InitDecision ==
    /\ sections = None
    /\ pc = "loop"
    /\ WORDS_TO_REMOVE = JList(<< >>)
    /\ SIMILARITY_AUTO \in Thresholds
    /\ SIMILARITY_ASK \in Thresholds
    /\ YEAR_DIFF_AUTO \in YearDiffs
    /\ case_insensitive \in BOOLEAN
    /\ files = create_all(case_insensitive, LibraryFiles \o EdgeFiles \o OtherFiles)
    /\ log = << >>
    /\ clock = 0
    /\ item_no = MaxItems - 1
    /\ video_item = NoVideo
    /\ result = NoResult
    /\ decision = NoDecision
    /\ confirm = ""
    /\ call = NoCall(files, log)
    /\ invalid = 0

next_edge_video == process_video(AllVideos)

NextDecision ==
    \/ next_edge_video
    \/ end_of_listing
    \/ confirm_prompt
    \/ rename_file
    \/ case_remove
    \/ case_rename_temp
    \/ case_rename_final
    \/ case_log
    \/ case_except
    \/ overwrite_prompt
    \/ os_replace
    \/ replace_log

SpecDecision == InitDecision /\ [][NextDecision]_vars

(***************************************************************************)
(* A run over a whole listing: sections holds what fetch_plex_sections     *)
(* returned (None when the request failed) and, for each section, its type *)
(* and what fetch_plex_movies returned for it (None when the request       *)
(* failed). The run takes the videos in the order of the listing.          *)
(***************************************************************************)
Movie(videos) == [type |-> "movie", movies |-> Some(videos)]

Show(videos) == [type |-> "show", movies |-> Some(videos)]

Unfetched == [type |-> "movie", movies |-> None]

\* lines 330 to 342: the videos the two loops go through, in order: those of the
\* sections of type movie whose videos were fetched
RECURSIVE listed_videos(_)
listed_videos(directories) ==
    IF Len(directories) = 0 THEN << >>
    ELSE LET section == Head(directories)
         IN  (IF section.type = "movie" /\ section.movies # None
              THEN section.movies[1] ELSE << >>) \o listed_videos(Tail(directories))

\* listings of at most MaxItems videos: the request for the sections fails; no section;
\* one section; sections of another type or without videos among the others; a video
\* whose metadata request fails; the same file in two sections; a video renamed onto
\* the file of the next one
SectionListings ==
    {None,
     Some(<< >>),
     Some(<<Movie(<<V_caseonly, V_near>>)>>),
     Some(<<Movie(<<V_tmdbid>>), Show(<<V_exact>>), Unfetched, Movie(<<V_tmdbtag>>)>>),
     Some(<<Movie(<<V_nometa>>), Movie(<< >>), Movie(<<V_near>>)>>),
     Some(<<Movie(<<V_exact>>), Movie(<<V_exact>>)>>)}

InitListing ==
    /\ sections \in SectionListings
    /\ pc = "list"
    /\ WORDS_TO_REMOVE = JList(<< >>)
    /\ SIMILARITY_AUTO = DEFAULT_SIMILARITY_AUTO
    /\ SIMILARITY_ASK = DEFAULT_SIMILARITY_ASK
    /\ YEAR_DIFF_AUTO = DEFAULT_YEAR_DIFF_AUTO
    /\ case_insensitive \in BOOLEAN
    /\ \E others \in {<< >>, OtherFiles} :
           files = create_all(case_insensitive, LibraryFiles \o others)
    /\ log = << >>
    /\ clock = 0
    /\ item_no = 0
    /\ video_item = NoVideo
    /\ result = NoResult
    /\ decision = NoDecision
    /\ confirm = ""
    /\ call = NoCall(files, log)
    /\ invalid = 0

\* lines 327 and 328: list_movie_files returns if the sections were not fetched
list_sections ==
    /\ pc = "list"
    /\ pc' = IF sections = None THEN "done" ELSE "loop"
    /\ UNCHANGED <<globals, sections, case_insensitive, files, log, clock, item_no, item, call,
                   invalid>>

\* line 342: the next video of the listing
next_listed_video ==
    /\ sections # None
    /\ item_no < Len(listed_videos(sections[1]))
    /\ process_video({listed_videos(sections[1])[item_no + 1]})

\* the loops of lines 330 and 342 are through: list_movie_files returns
end_of_sections ==
    /\ pc = "loop"
    /\ item_no = Len(listed_videos(sections[1]))
    /\ pc' = "done"
    /\ UNCHANGED <<globals, sections, case_insensitive, files, log, clock, item_no, item, call,
                   invalid>>

\* where the run stands: the place in the code and the place in the listing
position == <<pc, item_no>>

\* the places where the run waits for the operator, and those where it goes on by itself
PromptPlaces == {"confirm", "overwrite"}

RunPlaces ==
    {"list", "loop", "rename_file", "case_remove", "case_rename_temp", "case_rename_final",
     "case_log", "case_except", "os_replace", "replace_log"}

\* the run goes on by itself: every step of list_sections, next_listed_video,
\* end_of_sections, rename_file and the file operations and log writes is such a step, and
\* one of them can be taken at every place of RunPlaces
run_step ==
    /\ pc \in RunPlaces
    /\ pc' \in RunPlaces \cup PromptPlaces \cup {"done"}
    /\ item_no' \in {item_no, item_no + 1}

\* the operator answers the prompt with s or n: the run leaves the prompt
answer_given ==
    /\ pc \in PromptPlaces
    /\ pc' \in RunPlaces
    /\ UNCHANGED item_no

NextListing ==
    \/ list_sections
    \/ next_listed_video
    \/ end_of_sections
    \/ confirm_prompt
    \/ rename_file
    \/ case_remove
    \/ case_rename_temp
    \/ case_rename_final
    \/ case_log
    \/ case_except
    \/ overwrite_prompt
    \/ os_replace
    \/ replace_log

\* the run is one thread that goes on by itself, and every prompt is answered in the end
SpecListing ==
    /\ InitListing
    /\ [][NextListing]_vars
    /\ WF_position(run_step)
    /\ WF_position(answer_given)

(***************************************************************************)
(* The functions on their own: extract_basename, extract_year_from_filename *)
(* and calculate_similarity are called on arguments drawn from the sets     *)
(* below; extract_basename is called again on what it returned,             *)
(* calculate_similarity with its arguments exchanged, and the file name is  *)
(* given to the extract_year_from_filename of plex_renamer1.7.1.py as well. *)
(* video_item holds the call (the function and its arguments), result what  *)
(* the calls returned.                                                      *)
(***************************************************************************)
\* values of file_path: names with dots, brackets, parentheses, years and noise words,
\* names the pipeline empties, a name without extension, a name without directory, a
\* path without name, a name that is a year in parentheses, nested parentheses and a name
\* that holds the placeholder of line 167
FilePaths ==
    {\* "/m/Movie.Name.2019.1080p.BluRay.x264-GROUP.mkv"
     <<"/","m","/","M","o","v","i","e",".","N","a","m","e",".","2","0","1","9",".","1","0","8","0","p",".","B","l","u","R","a","y",".","x","2","6","4","-","G","R","O","U","P",".","m","k","v">>,
     \* "/m/Movie.Extended.Cut.2019.mkv"
     <<"/","m","/","M","o","v","i","e",".","E","x","t","e","n","d","e","d",".","C","u","t",".","2","0","1","9",".","m","k","v">>,
     \* "/m/Movie extended cut.mkv"
     <<"/","m","/","M","o","v","i","e"," ","e","x","t","e","n","d","e","d"," ","c","u","t",".","m","k","v">>,
     \* "/m/2012.2009.mkv"
     <<"/","m","/","2","0","1","2",".","2","0","0","9",".","m","k","v">>,
     \* "/m/Heat (1995).mkv"
     <<"/","m","/","H","e","a","t"," ","(","1","9","9","5",")",".","m","k","v">>,
     \* "/m/Movie 2019(2019).mkv"
     <<"/","m","/","M","o","v","i","e"," ","2","0","1","9","(","2","0","1","9",")",".","m","k","v">>,
     \* "/m/[x].mkv"
     <<"/","m","/","[","x","]",".","m","k","v">>,
     \* "/m/1080p.mkv"
     <<"/","m","/","1","0","8","0","p",".","m","k","v">>,
     \* "/m/Mr. Nobody"
     <<"/","m","/","M","r","."," ","N","o","b","o","d","y">>,
     \* "/m/ .mkv"
     <<"/","m","/"," ",".","m","k","v">>,
     \* "/m/Blade Runner 2049 (2017).mkv"
     <<"/","m","/","B","l","a","d","e"," ","R","u","n","n","e","r"," ","2","0","4","9"," ","(","2","0","1","7",")",".","m","k","v">>,
     \* "/m/Movie [1080p] (Uncut) (2019).mkv"
     <<"/","m","/","M","o","v","i","e"," ","[","1","0","8","0","p","]"," ","(","U","n","c","u","t",")"," ","(","2","0","1","9",")",".","m","k","v">>,
     \* "Movie.mkv"
     <<"M","o","v","i","e",".","m","k","v">>,
     \* "/m/(1995).mkv"
     <<"/","m","/","(","1","9","9","5",")",".","m","k","v">>,
     \* "/m/A ((1995) (1996)).mkv"
     <<"/","m","/","A"," ","(","(","1","9","9","5",")"," ","(","1","9","9","6",")",")",".","m","k","v">>,
     \* "/m/___YEAR_PLACEHOLDER___0 (1995).mkv"
     <<"/","m","/","_","_","_","Y","E","A","R","_","P","L","A","C","E","H","O","L","D","E","R","_","_","_","0"," ","(","1","9","9","5",")",".","m","k","v">>,
     \* "/m/"
     <<"/","m","/">>}

\* values of filename_str: years at the ends of the range of line 149 and beyond them, two
\* years, digits of other lengths, and years next to an underscore or a letter
Filenames ==
    {\* "Movie.Name.2019.1080p.BluRay.x264-GROUP.mkv"
     <<"M","o","v","i","e",".","N","a","m","e",".","2","0","1","9",".","1","0","8","0","p",".","B","l","u","R","a","y",".","x","2","6","4","-","G","R","O","U","P",".","m","k","v">>,
     \* "Movie.1080.mkv"
     <<"M","o","v","i","e",".","1","0","8","0",".","m","k","v">>,
     \* "Movie.2201.mkv"
     <<"M","o","v","i","e",".","2","2","0","1",".","m","k","v">>,
     \* "Movie.2200.mkv"
     <<"M","o","v","i","e",".","2","2","0","0",".","m","k","v">>,
     \* "Movie.1900.mkv"
     <<"M","o","v","i","e",".","1","9","0","0",".","m","k","v">>,
     \* "Movie.1899.mkv"
     <<"M","o","v","i","e",".","1","8","9","9",".","m","k","v">>,
     \* "Movie.2199.mkv"
     <<"M","o","v","i","e",".","2","1","9","9",".","m","k","v">>,
     \* "Blade.Runner.2049.2017.mkv"
     <<"B","l","a","d","e",".","R","u","n","n","e","r",".","2","0","4","9",".","2","0","1","7",".","m","k","v">>,
     \* "1080.2019.mkv"
     <<"1","0","8","0",".","2","0","1","9",".","m","k","v">>,
     \* "Movie (2019).mkv"
     <<"M","o","v","i","e"," ","(","2","0","1","9",")",".","m","k","v">>,
     \* "Movie.20190.mkv"
     <<"M","o","v","i","e",".","2","0","1","9","0",".","m","k","v">>,
     \* "Movie_Name_2019.mkv"
     <<"M","o","v","i","e","_","N","a","m","e","_","2","0","1","9",".","m","k","v">>,
     \* "Movie2019.mkv"
     <<"M","o","v","i","e","2","0","1","9",".","m","k","v">>,
     \* "Movie.mkv"
     <<"M","o","v","i","e",".","m","k","v">>}

\* values of a and b, in lower case as at line 321
Strings ==
    {\* ""
     <<>>,
     \* "up"
     <<"u","p">>,
     \* "red"
     <<"r","e","d">>,
     \* "dead"
     <<"d","e","a","d">>,
     \* "movie name"
     <<"m","o","v","i","e"," ","n","a","m","e">>,
     \* "movie nam"
     <<"m","o","v","i","e"," ","n","a","m">>}


\* values of WORDS_TO_REMOVE: no word, the words of scenario A, and words with a phrase of
\* two words
NoiseWordLists ==
    {<< >>,
     <<<<"1","0","8","0","p">>, <<"b","l","u","r","a","y">>, <<"x","2","6","4">>>>,
     <<<<"1","0","8","0","p">>, <<"b","l","u","r","a","y">>, <<"x","2","6","4">>, <<"u","n","c","u","t">>, <<"e","x","t","e","n","d","e","d"," ","c","u","t">>>>}

\* the calls: a function, its arguments and the value of WORDS_TO_REMOVE during the call
FunctionCalls ==
    {[function |-> "extract_basename", args |-> <<p>>, words |-> W] :
        p \in FilePaths, W \in NoiseWordLists}
    \cup {[function |-> "extract_year_from_filename", args |-> <<f>>, words |-> << >>] :
        f \in Filenames}
    \cup {[function |-> "calculate_similarity", args |-> <<s, t>>, words |-> << >>] :
        s \in Strings, t \in Strings}

InitFunctions ==
    /\ sections = None
    /\ pc = "call"
    /\ \E c \in FunctionCalls :
           /\ video_item = [function |-> c.function, args |-> c.args]
           /\ WORDS_TO_REMOVE = JList(c.words)
    /\ SIMILARITY_AUTO = DEFAULT_SIMILARITY_AUTO
    /\ SIMILARITY_ASK = DEFAULT_SIMILARITY_ASK
    /\ YEAR_DIFF_AUTO = DEFAULT_YEAR_DIFF_AUTO
    /\ case_insensitive = FALSE
    /\ files = create_all(case_insensitive, << >>)
    /\ log = << >>
    /\ clock = 0
    /\ item_no = 0
    /\ result = << >>
    /\ decision = NoDecision
    /\ confirm = ""
    /\ call = NoCall(files, log)
    /\ invalid = 0

\* In each action one function is called, and the value it returns is appended to result.
\* extract_basename(file_path)
call_extract_basename ==
    /\ pc = "call"
    /\ video_item.function = "extract_basename"
    /\ result' = Append(result, extract_basename(video_item.args[1], words_of(WORDS_TO_REMOVE)))
    /\ pc' = "returned"
    /\ UNCHANGED <<globals, sections, case_insensitive, files, log, clock, item_no, video_item, decision,
                   confirm, call, invalid>>

\* extract_basename of what extract_basename returned
call_extract_basename_again ==
    /\ pc = "returned"
    /\ video_item.function = "extract_basename"
    /\ result' = Append(result, extract_basename(result[1], words_of(WORDS_TO_REMOVE)))
    /\ pc' = "returned_again"
    /\ UNCHANGED <<globals, sections, case_insensitive, files, log, clock, item_no, video_item, decision,
                   confirm, call, invalid>>

\* extract_year_from_filename(filename_str)
call_extract_year_from_filename ==
    /\ pc = "call"
    /\ video_item.function = "extract_year_from_filename"
    /\ result' = Append(result, extract_year_from_filename(video_item.args[1]))
    /\ pc' = "returned"
    /\ UNCHANGED <<globals, sections, case_insensitive, files, log, clock, item_no, video_item, decision,
                   confirm, call, invalid>>

\* extract_year_from_filename(filename) of plex_renamer1.7.1.py, after the call of the
\* function of plex_arenamer1.7.8.py
call_extract_year_from_filename_v171 ==
    /\ pc = "returned"
    /\ video_item.function = "extract_year_from_filename"
    /\ result' = Append(result, extract_year_from_filename_v171(video_item.args[1]))
    /\ pc' = "returned_again"
    /\ UNCHANGED <<globals, sections, case_insensitive, files, log, clock, item_no, video_item, decision,
                   confirm, call, invalid>>

\* calculate_similarity(a, b)
call_calculate_similarity ==
    /\ pc = "call"
    /\ video_item.function = "calculate_similarity"
    /\ result' = Append(result, calculate_similarity(video_item.args[1], video_item.args[2]))
    /\ pc' = "returned"
    /\ UNCHANGED <<globals, sections, case_insensitive, files, log, clock, item_no, video_item, decision,
                   confirm, call, invalid>>

\* calculate_similarity(b, a)
call_calculate_similarity_exchanged ==
    /\ pc = "returned"
    /\ video_item.function = "calculate_similarity"
    /\ result' = Append(result, calculate_similarity(video_item.args[2], video_item.args[1]))
    /\ pc' = "returned_again"
    /\ UNCHANGED <<globals, sections, case_insensitive, files, log, clock, item_no, video_item, decision,
                   confirm, call, invalid>>

NextFunctions ==
    \/ call_extract_basename
    \/ call_extract_basename_again
    \/ call_extract_year_from_filename
    \/ call_extract_year_from_filename_v171
    \/ call_calculate_similarity
    \/ call_calculate_similarity_exchanged

SpecFunctions == InitFunctions /\ [][NextFunctions]_vars

(***************************************************************************)
(* move_pelis.py: the films of a CSV export that pass one filter are moved  *)
(* to a destination directory, or, without -e, only listed (dry run).       *)
(* A path is the sequence of its components from the root, a component a    *)
(* sequence of characters; the empty sequence is the empty string where a   *)
(* string is tested and the root where a directory is looked up. The file   *)
(* system maps the paths that exist to "dir" or "file"; it has no symbolic  *)
(* links, so that Path.resolve() gives the path itself.                     *)
(***************************************************************************)
\* Path.parent
path_parent(p) == SubSeq(p, 1, Len(p) - 1)

\* Path.name
path_name(p) == IF Len(p) = 0 THEN << >> ELSE p[Len(p)]

\* str(a.resolve()).rstrip(os.sep) + os.sep starts with the same of b: b is a or a
\* directory above a
startswith_path(a, b) == Len(b) <= Len(a) /\ SubSeq(a, 1, Len(b)) = b

\* Path.is_dir
is_dir(fs, p) == Len(p) = 0 \/ (p \in DOMAIN fs /\ fs[p] = "dir")

\* Path.is_file
is_file(fs, p) == p \in DOMAIN fs /\ fs[p] = "file"

\* the directories a successful Path.mkdir(parents=True, exist_ok=True) creates: p and the
\* directories above it that are missing
missing_directories(fs, p) == {SubSeq(p, 1, k) : k \in 1..Len(p)} \ DOMAIN fs

\* Path.mkdir(parents=True, exist_ok=True) raises FileExistsError or NotADirectoryError:
\* p or a path above it is a file
mkdir_raises(fs, p) == \E k \in 1..Len(p) : is_file(fs, SubSeq(p, 1, k))

\* the file system after Path.mkdir(parents=True, exist_ok=True)
mkdir(fs, p) ==
    [q \in DOMAIN fs \cup missing_directories(fs, p) |-> IF q \in DOMAIN fs THEN fs[q] ELSE "dir"]

\* a prepare_directory that creates nothing and takes a missing directory as it is
prepare_directory_without_mkdir(fs, path_str, mkdir_fails) ==
    IF Len(path_str) = 0 THEN [raised |-> "ValueError", fs |-> fs]
    ELSE IF mkdir_raises(fs, path_str) THEN [raised |-> "SystemExit", fs |-> fs]
    ELSE [raised |-> "", fs |-> fs]

\* lines 25 to 39, prepare_directory(path_str): the exception it raises ("" if none) and
\* the file system as it leaves it; it returns path_str itself. mkdir_fails: creating a
\* directory raises OSError.
prepare_directory(fs, path_str, mkdir_fails) ==
    IF Len(path_str) = 0 THEN [raised |-> "ValueError", fs |-> fs]
    ELSE IF mkdir_raises(fs, path_str) THEN [raised |-> "SystemExit", fs |-> fs]
    ELSE IF mkdir_fails /\ missing_directories(fs, path_str) # {}
    THEN [raised |-> "SystemExit", fs |-> fs]
    ELSE [raised |-> "", fs |-> mkdir(fs, path_str)]

\* lines 41 to 48, count_items_in_directory
count_items_in_directory(fs, directory_path) ==
    IF ~is_dir(fs, directory_path) THEN 0
    ELSE Cardinality({q \in DOMAIN fs : Len(q) = Len(directory_path) + 1
                                          /\ startswith_path(q, directory_path)})

\* the first position where \(\d{4}\) matches in s, 0 if there is none
ParenDigitsAt(s) ==
    LET at(i) == /\ i + 5 <= Len(s)
                 /\ s[i] = "(" /\ s[i + 5] = ")"
                 /\ \A k \in 1..4 : IsDigit(s[i + k])
    IN  IF \E i \in 1..Len(s) : at(i)
        THEN CHOOSE i \in 1..Len(s) : at(i) /\ \A j \in 1..(i - 1) : ~at(j)
        ELSE 0

\* lines 72 to 77, extract_year_from_name
extract_year_from_name(s) ==
    IF ParenDigitsAt(s) = 0 THEN None
    ELSE Some(int(SubSeq(s, ParenDigitsAt(s) + 1, ParenDigitsAt(s) + 4)))

\* str.split(sep) for a separator of one character
RECURSIVE split(_, _)
split(s, sep) ==
    IF \E i \in 1..Len(s) : s[i] = sep
    THEN LET i == CHOOSE k \in 1..Len(s) : s[k] = sep /\ \A j \in 1..(k - 1) : s[j] # sep
         IN  <<SubSeq(s, 1, i - 1)>> \o split(From(s, i + 1), sep)
    ELSE <<s>>

\* float(s) in tenths, for a number written with digits and at most one decimal; None
\* when float raises ValueError
to_tenths(s) ==
    LET parts == split(strip(s), ".")
    IN  IF Len(parts) = 1 /\ isdigit(parts[1]) THEN Some(10 * int(parts[1]))
        ELSE IF Len(parts) = 2 /\ isdigit(parts[1]) /\ isdigit(parts[2]) /\ Len(parts[2]) = 1
        THEN Some(10 * int(parts[1]) + int(parts[2]))
        ELSE None

\* shutil.move(str(move_target), str(dest)) into the existing directory dest, when it
\* succeeds: move_target and everything below it is found under dest by its name
shutil_move(fs, move_target, dest) ==
    LET moved == {q \in DOMAIN fs : startswith_path(q, move_target)}
        to(q) == dest \o SubSeq(q, Len(move_target), Len(q))
    IN  [q \in (DOMAIN fs \ moved) \cup {to(m) : m \in moved} |->
            IF q \in DOMAIN fs \ moved THEN fs[q]
            ELSE fs[CHOOSE m \in moved : to(m) = q]]

\* the rows of the CSV export
R_heat ==
    [title |-> <<"H","e","a","t">>, imdb_rating |-> <<"8",".","3">>, genres |-> <<"C","r","i","m","e","#"," ","D","r","a","m","a">>,
     file_path |-> <<<<"l","i","b">>, <<"H","e","a","t"," ","(","1","9","9","5",")"," ","{","i","m","d","b","-","t","t","1","}">>, <<"H","e","a","t",".","m","k","v">>>>]

R_up ==
    [title |-> <<"U","p">>, imdb_rating |-> <<"4",".","5">>, genres |-> <<"A","n","i","m","a","t","i","o","n","#","C","o","m","e","d","y">>,
     file_path |-> <<<<"l","i","b">>, <<"U","p"," ","(","2","0","0","9",")">>, <<"U","p",".","m","k","v">>>>]

R_big ==
    [title |-> <<"B","i","g">>, imdb_rating |-> <<"N","/","A">>, genres |-> <<"c","o","m","e","d","y">>,
     file_path |-> <<<<"l","i","b">>, <<"B","i","g"," ","(","1","9","8","8",")"," ","{","t","m","d","b","-","5","}">>, <<"B","i","g",".","m","k","v">>>>]

R_gone ==
    [title |-> <<"G","o","n","e">>, imdb_rating |-> <<"3">>, genres |-> <<"C","o","m","e","d","y">>,
     file_path |-> <<<<"l","i","b">>, <<"G","o","n","e"," ","(","2","0","0","1",")">>, <<"G","o","n","e",".","m","k","v">>>>]

R_nopath ==
    [title |-> <<"L","o","s","t">>, imdb_rating |-> <<"3">>, genres |-> <<"C","o","m","e","d","y">>, file_path |-> << >>]

Rows == {R_heat, R_up, R_big, R_gone, R_nopath}

\* the library on disk: a directory with an identifier and one file, one without
\* identifier, one with an identifier and more than three items
LibraryTree ==
    {<<<<"l","i","b">>>>,
     <<<<"l","i","b">>, <<"H","e","a","t"," ","(","1","9","9","5",")"," ","{","i","m","d","b","-","t","t","1","}">>>>, <<<<"l","i","b">>, <<"U","p"," ","(","2","0","0","9",")">>>>, <<<<"l","i","b">>, <<"B","i","g"," ","(","1","9","8","8",")"," ","{","t","m","d","b","-","5","}">>>>}

LibraryTreeFiles ==
    {<<<<"l","i","b">>, <<"H","e","a","t"," ","(","1","9","9","5",")"," ","{","i","m","d","b","-","t","t","1","}">>, <<"H","e","a","t",".","m","k","v">>>>, <<<<"l","i","b">>, <<"U","p"," ","(","2","0","0","9",")">>, <<"U","p",".","m","k","v">>>>,
     <<<<"l","i","b">>, <<"B","i","g"," ","(","1","9","8","8",")"," ","{","t","m","d","b","-","5","}">>, <<"B","i","g",".","m","k","v">>>>, <<<<"l","i","b">>, <<"B","i","g"," ","(","1","9","8","8",")"," ","{","t","m","d","b","-","5","}">>, <<"B","i","g",".","s","r","t">>>>,
     <<<<"l","i","b">>, <<"B","i","g"," ","(","1","9","8","8",")"," ","{","t","m","d","b","-","5","}">>, <<"B","i","g",".","n","f","o">>>>, <<<<"l","i","b">>, <<"B","i","g"," ","(","1","9","8","8",")"," ","{","t","m","d","b","-","5","}">>, <<"p","o","s","t","e","r",".","j","p","g">>>>}

csv_file == <<<<"p","l","e","x","_","m","o","v","i","e","s","_","e","x","p","o","r","t",".","c","s","v">>>>

\* a file system of these directories and files
Tree(dirs, regular) == [p \in dirs \cup regular |-> IF p \in dirs THEN "dir" ELSE "file"]

\* the file systems a run starts on: without the directory /dst, with /dst holding a file
\* named as one of the library, and without the CSV file
FileSystems ==
    {Tree(LibraryTree, LibraryTreeFiles \cup {csv_file}),
     Tree(LibraryTree \cup {<<<<"d","s","t">>>>}, LibraryTreeFiles \cup {csv_file, <<<<"d","s","t">>, <<"U","p",".","m","k","v">>>>}),
     Tree(LibraryTree \cup {<<<<"d","s","t">>>>}, LibraryTreeFiles)}

\* values of <dir>: a directory that may be missing, one whose parent is missing, the empty
\* string, a file, and the directory that holds the library
Destinations ==
    {<<<<"d","s","t">>>>, <<<<"n","e","w">>, <<"d","e","e","p">>>>, << >>, <<<<"l","i","b">>, <<"U","p"," ","(","2","0","0","9",")">>, <<"U","p",".","m","k","v">>>>, <<<<"l","i","b">>>>}

NoFilter == [down |-> None, top |-> None, genre |-> None, year |-> None]

\* the filters of the command line with <dir> = d: one of -d, -t, -g, -y with values that
\* are accepted and values that are not, none, and two at once
FiltersTo(d) ==
    {[NoFilter EXCEPT !.down = Some(<<<<"5">>, d>>)],
     [NoFilter EXCEPT !.down = Some(<<<<"l","o","w">>, d>>)],
     [NoFilter EXCEPT !.top = Some(<<<<"7",".","5">>, d>>)],
     [NoFilter EXCEPT !.genre = Some(<<d, <<"C","o","m","e","d","y">>>>)],
     [NoFilter EXCEPT !.genre = Some(<<d>>)],
     [NoFilter EXCEPT !.year = Some(<<<<"1","9","9","0","-","2","0","1","0">>, d>>)],
     [NoFilter EXCEPT !.year = Some(<<<<"2","0","1","0","-","1","9","9","0">>, d>>)],
     [NoFilter EXCEPT !.year = Some(<<<<"1","9","9","5">>, d>>)],
     [NoFilter EXCEPT !.down = Some(<<<<"5">>, d>>), !.top = Some(<<<<"7",".","5">>, d>>)],
     NoFilter}

\* args of main: the filter and -e
Arguments ==
    {[filter |-> f, execute |-> e] : f \in UNION {FiltersTo(d) : d \in Destinations},
                                     e \in BOOLEAN}

\* the rows one run reads at most
MaxRows == 2

NoActiveFilter == [type |-> "none", threshold |-> 0, genres |-> << >>, start |-> 0, end |-> 0, dest |-> << >>]

\* lines 116 to 149 of main: the filter is validated, the destination prepared and the CSV
\* file looked for. exit tells that the run ends there; fs is the file system then.
\* mkdir_fails: creating a directory raises OSError.
process_filter(fs, args, mkdir_fails) ==
    LET f == args.filter
        count == Cardinality({k \in {"down", "top", "genre", "year"} : f[k] # None})
        ended(fs1) == [exit |-> TRUE, fs |-> fs1, active_filter |-> NoActiveFilter]
        goes_on(prepared, af) ==
            IF prepared.raised # "" THEN ended(prepared.fs)
            ELSE IF ~is_file(prepared.fs, csv_file) THEN ended(prepared.fs)
            ELSE [exit |-> FALSE, fs |-> prepared.fs, active_filter |-> af]
    IN  IF count # 1 THEN ended(fs)
        ELSE IF f.down # None \/ f.top # None
        THEN LET a == IF f.down # None THEN f.down[1] ELSE f.top[1]
                 threshold == to_tenths(a[1])
             IN  IF threshold = None THEN ended(fs)
                 ELSE goes_on(prepare_directory(fs, a[2], mkdir_fails),
                              [NoActiveFilter EXCEPT !.type = IF f.down # None THEN "down" ELSE "top",
                                                     !.threshold = threshold[1], !.dest = a[2]])
        ELSE IF f.genre # None
        THEN LET a == f.genre[1]
             IN  IF Len(a) < 2 THEN ended(fs)
                 ELSE goes_on(prepare_directory(fs, a[1], mkdir_fails),
                              [NoActiveFilter EXCEPT !.type = "genre", !.dest = a[1],
                                                     !.genres = [i \in 1..(Len(a) - 1) |-> lower(a[i + 1])]])
        ELSE LET a == f.year[1]
                 parts == split(a[1], "-")
                 start_year == to_int(JStr(parts[1]))
                 end_year == to_int(JStr(parts[2]))
             IN  IF Len(parts) # 2 THEN ended(fs)
                 ELSE IF start_year = None \/ end_year = None THEN ended(fs)
                 ELSE IF start_year[1] > end_year[1] THEN ended(fs)
                 ELSE goes_on(prepare_directory(fs, a[2], mkdir_fails),
                              [NoActiveFilter EXCEPT !.type = "year", !.start = start_year[1],
                                                     !.end = end_year[1], !.dest = a[2]])

\* lines 185 to 207: whether the row passes the filter
is_match(af, row) ==
    IF af.type \in {"down", "top"}
    THEN LET rating == to_tenths(row.imdb_rating)
         IN  /\ rating # None
             /\ \/ af.type = "down" /\ rating[1] < af.threshold
                \/ af.type = "top" /\ rating[1] > af.threshold
    ELSE IF af.type = "genre"
    THEN LET parts == split(row.genres, "#")
             movie_genres == {lower(strip(parts[i])) : i \in DOMAIN parts}
         IN  \A i \in DOMAIN af.genres : af.genres[i] \in movie_genres
    ELSE LET movie_year == extract_year_from_name(path_name(path_parent(row.file_path)))
         IN  /\ Truthy(movie_year)
             /\ af.start <= movie_year[1] /\ movie_year[1] <= af.end

\* lines 231 to 247: what is moved for the row, the file or its directory
move_target_of(fs, row) ==
    LET source_dir == path_parent(row.file_path)
        source_basename == lower(path_name(source_dir))
        contains_id == Contains(source_basename, <<"i","m","d","b">>) \/ Contains(source_basename, <<"t","m","d","b">>)
    IN  IF ~contains_id \/ count_items_in_directory(fs, source_dir) > 3
        THEN row.file_path
        ELSE source_dir

\* lines 172 to 273, one row of the CSV: whether it passed the filter, what became of it
\* and the file system after it. move_fails: shutil.move raises.
process_row(fs, af, row, execute_mode, move_fails) ==
    LET source_dir == path_parent(row.file_path)
        move_target == move_target_of(fs, row)
        target_path_in_dest == af.dest \o <<path_name(move_target)>>
        same(outcome) == [matched |-> TRUE, outcome |-> outcome, fs |-> fs]
    IN  IF Len(row.file_path) = 0 THEN [matched |-> FALSE, outcome |-> "SKIPPED", fs |-> fs]
        ELSE IF ~is_match(af, row) THEN [matched |-> FALSE, outcome |-> "NO_MATCH", fs |-> fs]
        ELSE IF ~is_dir(fs, source_dir) THEN same("SKIPPED")
        ELSE IF startswith_path(source_dir, af.dest) THEN same("SKIPPED")
        ELSE IF move_target = row.file_path /\ ~is_file(fs, move_target) THEN same("SKIPPED")
        ELSE IF execute_mode
        THEN IF target_path_in_dest \in DOMAIN fs THEN same("SKIPPED")
             ELSE IF move_fails THEN same("FAILED")
             ELSE [matched |-> TRUE, outcome |-> "MOVED",
                   fs |-> shutil_move(fs, move_target, af.dest)]
        ELSE IF target_path_in_dest \in DOMAIN fs THEN same("CONFLICT")
        ELSE same("DRY_RUN")

\* lines 161 to 163: stats and the number of conflicts before the first row
NoStats ==
    [processed |-> 0, matched |-> 0, moved |-> 0, skipped |-> 0, failed |-> 0,
     conflicts |-> 0, outcome |-> "NONE"]

\* stats and conflicts after a row that came to r
count_row(stats, r) ==
    LET plus(field, counted) == IF counted THEN stats[field] + 1 ELSE stats[field]
    IN  [processed |-> stats.processed + 1,
         matched |-> plus("matched", r.matched),
         moved |-> plus("moved", r.outcome = "MOVED"),
         skipped |-> plus("skipped", r.outcome = "SKIPPED"),
         failed |-> plus("failed", r.outcome = "FAILED"),
         conflicts |-> plus("conflicts", r.outcome = "CONFLICT"),
         outcome |-> r.outcome]

\* a run of move_pelis.py: video_item holds args, decision the active filter, result the
\* counts, files the file system, call.files0 the file system the run started on, item_no
\* the rows read
InitMove ==
    /\ sections = None
    /\ pc = "main"
    /\ video_item \in Arguments
    /\ files \in FileSystems
    /\ WORDS_TO_REMOVE = JList(<< >>)
    /\ SIMILARITY_AUTO = DEFAULT_SIMILARITY_AUTO
    /\ SIMILARITY_ASK = DEFAULT_SIMILARITY_ASK
    /\ YEAR_DIFF_AUTO = DEFAULT_YEAR_DIFF_AUTO
    /\ case_insensitive = FALSE
    /\ log = << >>
    /\ clock = 0
    /\ item_no = 0
    /\ result = NoStats
    /\ decision = NoActiveFilter
    /\ confirm = ""
    /\ call = NoCall(files, log)
    /\ invalid = 0

\* lines 81 to 149 of move_pelis.py: the arguments are parsed, the filter is validated and
\* its destination prepared, and the CSV file is looked for
move_pelis_main ==
    /\ pc = "main"
    /\ \E mkdir_fails \in BOOLEAN :
           LET r == process_filter(files, video_item, mkdir_fails)
           IN  /\ files' = r.fs
               /\ decision' = r.active_filter
               /\ pc' = IF r.exit THEN "exit" ELSE "open"
    /\ UNCHANGED <<globals, sections, case_insensitive, log, clock, item_no, video_item, result, confirm,
                   call, invalid>>

\* lines 165 to 170 and 275 to 278: the CSV file is opened and its header read; the run
\* ends if it cannot be opened or lacks a required column
open_csv ==
    /\ pc = "open"
    /\ \E readable \in BOOLEAN : pc' = IF readable THEN "rows" ELSE "exit"
    /\ UNCHANGED <<globals, sections, case_insensitive, files, log, clock, item_no, item, call,
                   invalid>>

\* lines 172 to 273: the next row of the CSV file
read_row ==
    /\ pc = "rows"
    /\ item_no < MaxRows
    /\ \E row \in Rows, move_fails \in BOOLEAN :
           LET r == process_row(files, decision, row, video_item.execute, move_fails)
           IN  /\ files' = r.fs
               /\ result' = count_row(result, r)
    /\ item_no' = item_no + 1
    /\ UNCHANGED <<pc, globals, sections, case_insensitive, log, clock, video_item, decision, confirm,
                   call, invalid>>

\* lines 280 to 300: the CSV file has no further row, the summary is printed and the run
\* ends
end_of_csv ==
    /\ pc = "rows"
    /\ pc' = "exit"
    /\ UNCHANGED <<globals, sections, case_insensitive, files, log, clock, item_no, item, call,
                   invalid>>

NextMove ==
    \/ move_pelis_main
    \/ open_csv
    \/ read_row
    \/ end_of_csv

SpecMove == InitMove /\ [][NextMove]_vars

(***************************************************************************)
(* The properties                                                          *)
(***************************************************************************)
\* os.path.basename(file_path) of the item: the raw file name
raw_filename == basename(result.file_path)

\* process_movie has returned for the item and list_movie_files has taken its branch
Decided == decision.action # "NONE"

\* rename_file has not been called for the item and is not about to be
NotCalled == pc # "rename_file" /\ call.file_path = << >>

\* the operator has not been asked whether to rename the item and is not about to be
NotAsked == pc # "confirm" /\ confirm = ""

\* the item has left the file system and the log as it found them
Untouched == files = call.files0 /\ log = call.log0

\* the file p names in the file system fs
file_at(fs, p) == fs[stored(fs, case_insensitive, p)]

\* C1: every item whose raw file name carries a standard identifier tag, {imdb-tt<digits>}
\* or {tmdb-<digits>} in any letter case, is skipped as already tagged and rename_file is
\* not called for it, whatever else the file name and the metadata hold.
C1_TaggedFileIsSkipped ==
    (Decided /\ has_standard_id_tag(raw_filename)) =>
        /\ decision.action = "SKIP"
        /\ decision.reason = "ALREADY_FORMATTED_ID_TAG"
        /\ NotCalled

\* the item reaches the similarity path: its file name holds neither a TMDb marker nor an
\* identifier tag, its metadata was fetched and holds a valid IMDb or TMDb id
OnSimilarityPath ==
    /\ Decided
    /\ ~tmdb_presence_match(raw_filename)
    /\ ~has_standard_id_tag(raw_filename)
    /\ video_item.meta # None
    /\ \/ has_valid(get_identifiers(video_item.meta[1]).imdb)
       \/ has_valid(get_identifiers(video_item.meta[1]).tmdb)

\* C2: on the similarity path, for every pair of thresholds, the action is AUTO_RENAME if
\* and only if the score is at least SIMILARITY_AUTO, the years match, and the title of the
\* metadata has two words or more or it has one word and the cleaned file name has one.
C2_AutoRenameIff ==
    OnSimilarityPath =>
        /\ result.status = "SIMILARITY"
        /\ decision.action = "AUTO_RENAME" <=>
              /\ AtLeast(result.similarity, SIMILARITY_AUTO)
              /\ decision.year_match
              /\ \/ WordCount(result.title[1]) >= 2
                 \/ /\ WordCount(result.title[1]) = 1
                    /\ WordCount(result.base_name_from_file) = 1

\* an item is renamed automatically with a score that equals SIMILARITY_AUTO, while
\* SIMILARITY_ASK is the greater threshold
C2_AutoAtThreshold ==
    /\ OnSimilarityPath
    /\ decision.action = "AUTO_RENAME"
    /\ result.similarity.num = SIMILARITY_AUTO * result.similarity.den
    /\ SIMILARITY_ASK > SIMILARITY_AUTO
    /\ call.outcome = "RENAMED"

\* C3: on the similarity path the action is ASK_CONFIRM if and only if it is not
\* AUTO_RENAME and the score is greater than SIMILARITY_ASK; the operator is asked exactly
\* for the items of ASK_CONFIRM; every other item that is not renamed automatically is
\* skipped for insufficient similarity, without a prompt, a call of rename_file or a change.
C3_AskConfirmIff ==
    OnSimilarityPath =>
        /\ decision.action \in {"AUTO_RENAME", "ASK_CONFIRM", "SKIP"}
        /\ decision.action = "ASK_CONFIRM" <=>
              /\ decision.action # "AUTO_RENAME"
              /\ Above(result.similarity, SIMILARITY_ASK)
        /\ decision.action = "ASK_CONFIRM" <=> ~NotAsked
        /\ decision.action = "SKIP" =>
              /\ decision.reason = "INSUFFICIENT_SIMILARITY"
              /\ NotAsked
              /\ NotCalled
              /\ Untouched

\* an item whose score equals SIMILARITY_ASK, and is below SIMILARITY_AUTO, is skipped
C3_SkippedAtAskThreshold ==
    /\ OnSimilarityPath
    /\ result.similarity.num = SIMILARITY_ASK * result.similarity.den
    /\ result.similarity.err = 0
    /\ SIMILARITY_AUTO > SIMILARITY_ASK
    /\ decision.action = "SKIP"

\* the year of the raw file name and the year of the metadata are both there: the file
\* name holds a year token and the year of the metadata is a number
BothYearsPresent ==
    /\ decision.filename_year # None
    /\ isdigit(result.year[1])

\* C4: for an item that is not skipped by process_movie, year_match is true if and only if
\* the file name holds a year, the year of the metadata is a number, and the two differ by
\* YEAR_DIFF_AUTO at most; without one of the years the item is not renamed automatically
\* on the similarity path.
C4_YearMatchIff ==
    (Decided /\ ~result.skip_processing) =>
        /\ decision.filename_year = extract_year_from_filename(raw_filename)
        /\ decision.year_match <=>
              /\ BothYearsPresent
              /\ decision.filename_year[1] - int(result.year[1]) <= YEAR_DIFF_AUTO
              /\ int(result.year[1]) - decision.filename_year[1] <= YEAR_DIFF_AUTO
        /\ (~BothYearsPresent /\ result.status = "SIMILARITY") =>
              decision.action # "AUTO_RENAME"

\* C5: an item whose raw file name holds tmdbid=<digits> or tmdb-<digits>, and whose
\* metadata was fetched, is renamed automatically under the name built from the metadata,
\* for every pair of thresholds, every score, every pair of years and every title, and the
\* operator is not asked whether to rename it.
C5_OverrideAutoRenames ==
    LET embedded == tmdb_id_explicit_match(raw_filename)
    IN  (Decided /\ video_item.meta # None /\ embedded # None) =>
            /\ decision.action = "AUTO_RENAME"
            /\ decision.reason = "TMDB_DIRECT_RENAME"
            /\ result.tmdb_id = embedded
            /\ decision.new_name # None
            /\ NotAsked

\* the file "x tmdbid=7", whose name is unlike the title and holds no year, is renamed
\* while SIMILARITY_AUTO is 100
C5_OverrideWithLowScore ==
    /\ video_item = V_tmdbid
    /\ SIMILARITY_AUTO = 100
    /\ decision.action = "AUTO_RENAME"
    /\ ~decision.year_match
    /\ call.outcome = "RENAMED"

\* the metadata of the item was fetched, it holds neither a valid IMDb id nor a valid TMDb
\* id, and the file name holds neither a TMDb id nor an identifier tag
NoUsableIdentifier ==
    /\ Decided
    /\ video_item.meta # None
    /\ ~has_valid(get_identifiers(video_item.meta[1]).imdb)
    /\ ~has_valid(get_identifiers(video_item.meta[1]).tmdb)
    /\ tmdb_id_explicit_match(raw_filename) = None
    /\ ~has_standard_id_tag(raw_filename)

\* C6: an item without a usable identifier is skipped by process_movie for that reason, on
\* the normal path and on the path of the TMDb marker: no new name is proposed, the
\* operator is not asked and rename_file is not called.
C6_NoIdentifierIsSkipped ==
    NoUsableIdentifier =>
        /\ result.skip_processing
        /\ decision.action = "SKIP"
        /\ decision.reason = IF tmdb_presence_match(raw_filename)
                             THEN "NO_ID_FOR_TMDB_DIRECT_RENAME"
                             ELSE "NO_ID_FOUND"
        /\ decision.new_name = None
        /\ NotAsked
        /\ NotCalled
        /\ Untouched

\* a file name with a TMDb marker and metadata without identifiers: the item is skipped
C6_MarkerWithoutIdentifier ==
    /\ NoUsableIdentifier
    /\ tmdb_presence_match(raw_filename)
    /\ decision.action = "SKIP"

\* rename_file was called for the item, and its destination named another file than its
\* source when it was called
DestinationIsAnotherFile ==
    /\ call.file_path # << >>
    /\ exists(call.files0, case_insensitive, call.file_path)
    /\ exists(call.files0, case_insensitive, call.new_path)
    /\ file_at(call.files0, call.new_path) # file_at(call.files0, call.file_path)

\* C7: when the destination of rename_file exists and is another file than the source,
\* then as long as the operator has not answered 's' to the question whether to overwrite
\* it, the destination and the source are the files they were, and a call that ends
\* without that answer ends SKIPPED_EXISTS.
C7_OverwriteOnlyConfirmed ==
    (DestinationIsAnotherFile /\ call.overwrite # "s") =>
        /\ exists(files, case_insensitive, call.new_path)
        /\ file_at(files, call.new_path) = file_at(call.files0, call.new_path)
        /\ exists(files, case_insensitive, call.file_path)
        /\ file_at(files, call.file_path) = file_at(call.files0, call.file_path)
        /\ ~call.active => call.outcome = "SKIPPED_EXISTS"

\* rename_file was called with a destination that differs from the source by letter case
\* only, on a file system that ignores letter case, where the destination therefore exists
\* as long as the source does
CaseOnlyCall ==
    /\ call.file_path # << >>
    /\ case_insensitive
    /\ exists(call.files0, case_insensitive, call.new_path)
    /\ lower(call.file_path) = lower(call.new_path)
    /\ call.file_path # call.new_path

\* the operations of a case-only rename in which nothing raised
TwoSteps == <<"rename_to_temp", "rename_to_final", "log">>

\* the same after the removal of a temporary file left behind
TwoStepsAfterRemoval == <<"remove_temp">> \o TwoSteps

CaseOnlyOps == {TwoSteps, TwoStepsAfterRemoval}

Renamed == call.outcome = "RENAMED"

\* the log holds what it held when rename_file was called and one line more, with the
\* time of the write, the old path and the new path
OneLineAppended ==
    /\ Len(log) = Len(call.log0) + 1
    /\ SubSeq(log, 1, Len(call.log0)) = call.log0
    /\ log[Len(log)] = [time |-> clock - 1, old_path |-> call.file_path,
                        new_path |-> call.new_path]

\* the last operation of the call was the write to the log, and the one before it the
\* rename in the file system
LoggedAfterRename ==
    /\ Len(call.ops) >= 2
    /\ call.ops[Len(call.ops)] = "log"
    /\ call.ops[Len(call.ops) - 1] \in {"replace", "rename_to_final"}
    /\ \A k \in 1..(Len(call.ops) - 1) : call.ops[k] # "log"

\* no step removes or changes a line of the log
AppendOnly ==
    /\ Len(log') >= Len(log)
    /\ SubSeq(log', 1, Len(log)) = log

CallFailed == call.error # "" /\ call.outcome \in {"FAILED", "RAISED"}

\* C11: an error raised while an item is processed (by a file operation of the rename, by
\* the restoring os.rename of the case-only handler, or by the write of rename.log) ends in
\* a failure of that item and never ends the run: the step in which the call fails takes
\* the run back to the loop of the listing, where the next video is processed
C11_ErrorNeverAbortsBatch ==
    /\ [](call.error # "" /\ ~call.active => call.outcome \in {"FAILED", "RAISED"})
    /\ [][CallFailed' /\ ~CallFailed => pc' = "loop"]_vars

\* the write of rename.log raised for the first video (the clock has advanced twice and
\* the log has one line), and the second video has been renamed and logged
C11_SecondItemAfterFailure ==
    /\ item_no = 2
    /\ clock = 2
    /\ Len(log) = 1
    /\ call.outcome = "RENAMED"

\* the call of the function named, after it has returned n values
Returned(function, n) == video_item.function = function /\ Len(result) = n

\* C12: normalization is idempotent: extract_basename of what extract_basename returned
\* for a file path, under the same WORDS_TO_REMOVE, is that value again
C12_NormalizationIdempotent ==
    pc = "returned_again" /\ Returned("extract_basename", 2) => result[2] = result[1]

\* C13: the similarity score is symmetric: calculate_similarity(b, a) is
\* calculate_similarity(a, b)
C13_SimilaritySymmetric ==
    pc = "returned_again" /\ Returned("calculate_similarity", 2) => result[2] = result[1]

\* the raw file name of scenario A: "Movie.Name.2019.1080p.BluRay.x264-GROUP.mkv"
ScenarioA ==
    <<"M","o","v","i","e",".","N","a","m","e",".","2","0","1","9",".","1","0","8","0","p",".","B","l","u","R","a","y",".","x","2","6","4","-","G","R","O","U","P",".","m","k","v">>

\* WORDS_TO_REMOVE contains "1080p", "bluray" and "x264"
ScenarioAWords ==
    {<<"1","0","8","0","p">>, <<"b","l","u","r","a","y">>, <<"x","2","6","4">>} \subseteq Range(words_of(WORDS_TO_REMOVE))

\* C14: scenario A: for the raw file name "Movie.Name.2019.1080p.BluRay.x264-GROUP.mkv" and a
\* noise-word list with "1080p", "bluray" and "x264", extract_basename returns "Movie Name"
\* and extract_year_from_filename returns 2019
C14_ScenarioA ==
    /\ pc = "returned" /\ Returned("extract_basename", 1) /\ ScenarioAWords
          /\ basename(video_item.args[1]) = ScenarioA
       => result[1] = <<"M","o","v","i","e"," ","N","a","m","e">>
    /\ pc = "returned" /\ Returned("extract_year_from_filename", 1)
          /\ video_item.args[1] = ScenarioA
       => result[1] = Some(2019)

\* C15: the year of the file name is taken from the raw file name, and neither it nor
\* year_match depends on WORDS_TO_REMOVE: under every other word list the item gets the
\* same two values
C15_YearIndependentOfNormalizer ==
    Decided =>
        /\ decision.filename_year = extract_year_from_filename(raw_filename)
        /\ \A W \in WordLists :
               LET d == item_decision(process_movie_of(video_item, W), SIMILARITY_AUTO,
                                      SIMILARITY_ASK, YEAR_DIFF_AUTO)
               IN  /\ d.filename_year = decision.filename_year
                   /\ d.year_match = decision.year_match

\* the normalizer removed the year from the name, which has none left, and another word
\* list leaves another name
C15_YearRemovedByNormalizer ==
    /\ Decided
    /\ decision.filename_year = Some(2019)
    /\ extract_year_from_filename(result.base_name_from_file) = None
    /\ \E W \in WordLists :
           process_movie_of(video_item, W).base_name_from_file # result.base_name_from_file

\* the positions of s where a 4-digit token with a value in 1900..2200 starts: four digits
\* with no digit before and none after
YearTokens(s) ==
    {i \in 1..(Len(s) - 3) :
        /\ \A k \in i..(i + 3) : IsDigit(s[k])
        /\ i = 1 \/ ~IsDigit(s[i - 1])
        /\ i + 3 = Len(s) \/ ~IsDigit(s[i + 4])
        /\ int(SubSeq(s, i, i + 3)) \in 1900..2200}

\* the value of the leftmost such token, None if there is none
FirstYearToken(s) ==
    IF YearTokens(s) = {} THEN None
    ELSE Some(int(SubSeq(s, FirstPos(YearTokens(s)), FirstPos(YearTokens(s)) + 3)))

\* C16: extract_year_from_filename, in plex_arenamer1.7.8.py and in plex_renamer1.7.1.py,
\* returns the leftmost 4-digit token of the file name whose value is in 1900..2200, and
\* None exactly when the name has no such token
C16_FirstYearTokenInRange ==
    /\ Len(result) >= 1 /\ video_item.function = "extract_year_from_filename"
       => result[1] = FirstYearToken(video_item.args[1])
    /\ Len(result) >= 2 /\ video_item.function = "extract_year_from_filename"
       => result[2] = FirstYearToken(video_item.args[1])

\* a rename is proposed for the item: it is renamed automatically or the operator is asked
RenameProposed == decision.action \in {"AUTO_RENAME", "ASK_CONFIRM"}

\* {imdb-<id>} if the item has a valid IMDb id, {tmdb-<id>} otherwise
identifier_tag ==
    IF has_valid(result.imdb_id)
    THEN <<"{","i","m","d","b","-">> \o result.imdb_id[1] \o <<"}">>
    ELSE <<"{","t","m","d","b","-">> \o result.tmdb_id[1] \o <<"}">>

\* the characters : \ / * ? " < > |
ForbiddenInNames == {":", "\\", "/", "*", "?", "\"", "<", ">", "|"}

\* no forbidden character, no white space at either end, no two white spaces in a row
CleanName(name) ==
    /\ \A i \in DOMAIN name : name[i] \notin ForbiddenInNames
    /\ Len(name) > 0 => ~IsSpace(name[1]) /\ ~IsSpace(name[Len(name)])
    /\ \A i \in 1..(Len(name) - 1) : ~(IsSpace(name[i]) /\ IsSpace(name[i + 1]))

\* C17: whenever a rename is proposed, the proposed name is
\* sanitize(title + " (" + year + ") " + identifier tag), with the IMDb tag if the IMDb id
\* is valid and the TMDb tag otherwise, and it has no character of : \ / * ? " < > |, no
\* white space at its ends and no run of two or more white spaces
C17_ProposedNameIsSanitized ==
    RenameProposed =>
        /\ decision.new_name =
               Some(sanitize_filename(result.title[1] \o <<" ","(">> \o result.year[1]
                                      \o <<")"," ">> \o identifier_tag))
        /\ CleanName(decision.new_name[1])

\* a rename is proposed for a title with forbidden characters and doubled spaces
C17_TitleWithForbiddenCharacters ==
    /\ RenameProposed
    /\ ~CleanName(result.title[1])
    /\ \E c \in ForbiddenInNames : \E i \in DOMAIN result.title[1] : result.title[1][i] = c

\* rename_file was called for the item with a target that is the old path itself
TargetIsOldPath == call.file_path # << >> /\ call.new_path = call.file_path

\* C18: if the rename target is the old path, character for character, rename_file returns
\* ALREADY_CORRECT (and for no other target), and it has done no file operation, asked
\* nothing and written no line of rename.log
C18_SamePathIsAlreadyCorrect ==
    /\ call.outcome = "ALREADY_CORRECT" => TargetIsOldPath
    /\ TargetIsOldPath =>
           /\ call.outcome = "ALREADY_CORRECT"
           /\ ~call.active
           /\ call.ops = << >>
           /\ call.overwrite = "" /\ invalid = 0
           /\ files = call.files0
           /\ log = call.log0
           /\ pc \in {"loop", "done"}

\* rename_file returned ALREADY_CORRECT for a file that is on disk
C18_AlreadyCorrectOnDisk ==
    /\ call.outcome = "ALREADY_CORRECT"
    /\ exists(files, case_insensitive, call.file_path)
    /\ decision.action = "AUTO_RENAME"

\* rename_file was called for the item
Called == call.file_path # << >>

\* the destination is in the directory of the old path
SameDirectory == dirname(call.new_path) = dirname(call.file_path)

\* the destination has the extension of the old path
SameExtension == splitext_ext(call.new_path) = splitext_ext(call.file_path)

\* C19 as stated: for every call of rename_file the destination has the parent directory
\* and the extension of the old path
C19_SameDirectoryAndExtension == Called => SameDirectory /\ SameExtension

\* C19: for every call of rename_file the destination has the parent directory of the old
\* path, the proposed name has no path separator, and the destination has the extension of
\* the old path if that path has one; if it has none, the destination is the proposed name
\* in that directory with nothing appended
C19_SameDirectoryAndKeptExtension ==
    Called =>
        /\ SameDirectory
        /\ \A i \in DOMAIN decision.new_name[1] : decision.new_name[1][i] \notin {"/", "\\"}
        /\ splitext_ext(call.file_path) # << >> => SameExtension
        /\ splitext_ext(call.file_path) = << >> => basename(call.new_path) = decision.new_name[1]

\* rename_file was called for a file with an extension and a title with a path separator,
\* and the destination is in the directory of the file and has its extension
C19_SeparatorInTitle ==
    /\ Called
    /\ \E i \in DOMAIN result.title[1] : result.title[1][i] = "/"
    /\ splitext_ext(call.file_path) # << >>
    /\ SameDirectory /\ SameExtension

\* the extension-stripped basename of the file path extract_basename was called with
StrippedBasename == splitext_root(basename(video_item.args[1]))

\* what steps 1 to 7 of extract_basename make of it
PipelineOutput == NormalizePipeline(StrippedBasename, words_of(WORDS_TO_REMOVE))

\* C20: for a file path whose extension-stripped basename is not empty, extract_basename
\* returns a name that is not empty: the extension-stripped basename itself if the pipeline
\* reduces it to the empty string, and the output of the pipeline otherwise
C20_NeverEmptyBasename ==
    pc = "returned" /\ Returned("extract_basename", 1) /\ StrippedBasename # << >> =>
        /\ result[1] # << >>
        /\ PipelineOutput = << >> => result[1] = StrippedBasename
        /\ PipelineOutput # << >> => result[1] = PipelineOutput

\* the pipeline reduced a name to the empty string, and the extension-stripped basename
\* was returned
C20_FallbackToStrippedBasename ==
    /\ pc = "returned" /\ Returned("extract_basename", 1)
    /\ StrippedBasename # << >>
    /\ PipelineOutput = << >>
    /\ result[1] = StrippedBasename

\* s holds a substring (YYYY) with YYYY from 1900 to 2200
HasParenthesizedYear(s) ==
    \E i \in 1..(Len(s) - 5) : s[i] = "(" /\ YearAt(s, i + 1) /\ s[i + 5] = ")"

\* C21 as stated: the name extract_basename returns never holds a year in parentheses
C21_NoParenthesizedYear ==
    pc = "returned" /\ Returned("extract_basename", 1) => ~HasParenthesizedYear(result[1])

\* C21: the output of steps 1 to 7 never holds a year in parentheses, and the name
\* extract_basename returns holds one exactly when the pipeline emptied a name that holds
\* one, which line 210 then returns as it was
C21_NoParenthesizedYearFromPipeline ==
    pc = "returned" /\ Returned("extract_basename", 1) =>
        /\ ~HasParenthesizedYear(PipelineOutput)
        /\ HasParenthesizedYear(result[1])
               <=> PipelineOutput = << >> /\ HasParenthesizedYear(StrippedBasename)

\* a name with a year in parentheses of which the pipeline left a name without it
C21_ParenthesizedYearRemoved ==
    /\ pc = "returned" /\ Returned("extract_basename", 1)
    /\ HasParenthesizedYear(StrippedBasename)
    /\ PipelineOutput # << >>
    /\ result[1] = PipelineOutput
    /\ ~HasParenthesizedYear(result[1])

\* list_movie_files has been entered
Listing == pc \notin {"main", "exit"}

\* the two thresholds are from 0 to 100
ThresholdsInRange ==
    /\ SIMILARITY_AUTO \in 0..100
    /\ SIMILARITY_ASK \in 0..100

\* C22: list_movie_files runs only with thresholds from 0 to 100 and a tolerance of years
\* that is not negative
C22_ConfigurationValidated == Listing => ThresholdsInRange /\ YEAR_DIFF_AUTO >= 0

\* the operator is or was asked whether to rename the item
RenamePrompted == pc = "confirm" \/ confirm # ""

\* the operator is or was asked whether to overwrite the destination
OverwritePrompted == pc = "overwrite" \/ call.overwrite # ""

\* rename_file was called, and when it was called a file stood at the destination, whose
\* path is not the old path in another letter case
DestinationOccupied ==
    /\ Called
    /\ LET found(p) == IF case_insensitive THEN lower(p) ELSE p
           target == found(call.new_path)
       IN  \E q \in DOMAIN call.files0 : found(q) = target
    /\ lower(call.file_path) # lower(call.new_path)

\* C23 as stated: an item whose action is AUTO_RENAME or SKIP meets no prompt
C23_PromptOnlyOnAskConfirm ==
    decision.action \in {"AUTO_RENAME", "SKIP"} => ~RenamePrompted /\ ~OverwritePrompted

\* C23: a run has two prompts. The question whether to rename is put for the items whose
\* action is ASK_CONFIRM only; the question whether to overwrite is put by rename_file,
\* for an item whose action is AUTO_RENAME as well, exactly when a file stands at the
\* destination; an item whose action is SKIP meets neither
C23_TwoPrompts ==
    /\ RenamePrompted => decision.action = "ASK_CONFIRM"
    /\ OverwritePrompted <=> DestinationOccupied
    /\ OverwritePrompted => decision.action \in {"AUTO_RENAME", "ASK_CONFIRM"}
    /\ decision.action = "SKIP" => ~RenamePrompted /\ ~OverwritePrompted /\ ~Called

\* an item renamed automatically after the operator agreed to overwrite the destination
C23_AutoRenameAskedToOverwrite ==
    /\ decision.action = "AUTO_RENAME"
    /\ call.overwrite = "s"
    /\ call.outcome = "RENAMED"

\* C24: a run of move_pelis.py without -e leaves the file system as it found it
C24_DryRunMutatesNothing == ~video_item.execute => files = call.files0

\* rename_file took the case-only branch, the source was moved to the temporary name, and
\* the os.rename of line 235 raised
IntermediateStepFailed ==
    /\ Called
    /\ ~call.active
    /\ call.error = "rename_to_final"

\* the handler restored the original name
Restored == Len(call.ops) > 0 /\ call.ops[Len(call.ops)] = "restore"

\* C25: when the second os.rename of the case-only branch raises, the handler renames the
\* temporary file back, and the call ends FAILED unless that rename raises as well; once
\* it is restored the file is at old_path under its old name, nothing is at the temporary
\* name, the log is as the call found it and the overwrite question was not put
C25_RestoredAfterFailure ==
    IntermediateStepFailed =>
        /\ Restored \/ call.outcome = "RAISED"
        /\ Restored =>
              /\ call.outcome = "FAILED"
              /\ stored(files, case_insensitive, call.file_path) = call.file_path
              /\ file_at(files, call.file_path) = file_at(call.files0, call.file_path)
              /\ ~exists(files, case_insensitive, temp_name_of(call.new_path))
              /\ log = call.log0
              /\ call.overwrite = ""

\* a case-only rename whose second step failed and whose file was restored, after a
\* temporary file an earlier run had left was removed
C25_RestoredToOriginalName ==
    /\ IntermediateStepFailed
    /\ Restored
    /\ call.ops = <<"remove_temp", "rename_to_temp", "restore">>
    /\ exists(files, case_insensitive, call.file_path)

\* rename_file returned False
ReturnedFalse == ~call.active /\ call.outcome \in {"ALREADY_CORRECT", "SKIPPED_EXISTS", "FAILED"}

\* the file the call found at old_path is still found there
SourceInPlace ==
    exists(call.files0, case_insensitive, call.file_path) =>
        /\ exists(files, case_insensitive, call.file_path)
        /\ file_at(files, call.file_path) = file_at(call.files0, call.file_path)

\* what is found at the destination path is what the call found there
DestinationUnchanged ==
    /\ exists(files, case_insensitive, call.new_path)
           <=> exists(call.files0, case_insensitive, call.new_path)
    /\ exists(files, case_insensitive, call.new_path) =>
           file_at(files, call.new_path) = file_at(call.files0, call.new_path)

\* C26: a call of rename_file that returned True has put the file at the new path, and a
\* call that returned False has left the source at old_path and the destination as it was
C26_FalseMeansNothingMoved ==
    /\ Renamed => file_at(files, call.new_path) = file_at(call.files0, call.file_path)
    /\ ReturnedFalse => SourceInPlace /\ DestinationUnchanged

\* word stands in s as a whole word, in any letter case
HoldsNoiseWord(s, word) == Len(word) > 0 /\ \E i \in 1..Len(s) : NoiseWordAt(s, i, word)

\* C27: the name the pipeline of extract_basename returns holds none of the words and
\* phrases of WORDS_TO_REMOVE as a whole word, in any letter case
C27_NoNoiseWordLeft ==
    pc = "returned" /\ Returned("extract_basename", 1) /\ PipelineOutput # << >> =>
        \A k \in DOMAIN words_of(WORDS_TO_REMOVE) :
            ~HoldsNoiseWord(result[1], words_of(WORDS_TO_REMOVE)[k])

\* the item is one the operator is asked about
Asked == decision.action = "ASK_CONFIRM"

\* rename_file is being called or has been called for the item
InRenameFile == Called \/ pc = "rename_file"

\* C28: for an item of ASK_CONFIRM, rename_file is called only once the answer is s; until
\* the answer is s or n the run stays at the prompt, whatever else was typed; once the
\* answer is n, rename_file is not called, the files are the files the item found and the
\* log has no new line
C28_RenameOnlyAfterYes ==
    Asked =>
        /\ confirm \in {"", "s", "n"}
        /\ confirm = "" <=> pc = "confirm"
        /\ InRenameFile => confirm = "s"
        /\ confirm = "n" => ~InRenameFile /\ files = call.files0 /\ log = call.log0

\* the operator answered n: the item is left, rename_file was not called and nothing was
\* renamed
C28_Declined ==
    Asked /\ confirm = "n" /\ pc = "loop" /\ ~Called /\ files = call.files0

\* the operator answered s and the file has its new name
C28_RenamedAfterYes == Asked /\ confirm = "s" /\ Renamed

\* the raw file name holds the text tmdbid or tmdb-, in any letter case
HoldsMarker ==
    LET lowered == lower(raw_filename)
    IN  \/ Contains(lowered, <<"t","m","d","b","i","d">>)
        \/ Contains(lowered, <<"t","m","d","b","-">>)

\* the name proposed for the item is built from the metadata with this tag
ProposedWithTag(tag) ==
    decision.new_name =
        Some(sanitize_filename(get_or_unknown(video_item.meta[1].title) \o <<" ","(">>
                               \o get_or_unknown(video_item.meta[1].year) \o <<")"," ">> \o tag))

\* C29: for an item whose metadata was fetched and whose raw file name holds the marker
\* without an id, the identifiers are those of the metadata and the item is renamed
\* automatically if one of them is valid, whatever the thresholds, the score and the years,
\* and skipped otherwise; if the file name holds an id, that id is the TMDb id of the item
\* in place of the one of the metadata, and the tag of the proposed name is the IMDb id of
\* the metadata if it is valid and the id of the file name otherwise
C29_MarkerIsOverride ==
    Decided /\ video_item.meta # None /\ HoldsMarker =>
        LET EmbeddedId == tmdb_id_explicit_match(raw_filename)
            MetadataIds == get_identifiers(video_item.meta[1])
        IN  /\ result.imdb_id = MetadataIds.imdb
            /\ EmbeddedId = None =>
                   /\ result.tmdb_id = MetadataIds.tmdb
                   /\ IF has_valid(MetadataIds.imdb) \/ has_valid(MetadataIds.tmdb)
                      THEN /\ decision.action = "AUTO_RENAME"
                           /\ decision.reason = "TMDB_DIRECT_RENAME"
                           /\ ProposedWithTag(id_for_filename_tag(MetadataIds.imdb,
                                                                  MetadataIds.tmdb))
                      ELSE /\ decision.action = "SKIP"
                           /\ decision.new_name = None
            /\ EmbeddedId # None =>
                   /\ result.tmdb_id = EmbeddedId
                   /\ decision.action = "AUTO_RENAME"
                   /\ ProposedWithTag(
                          IF has_valid(MetadataIds.imdb)
                          THEN <<"{","i","m","d","b","-">> \o MetadataIds.imdb[1] \o <<"}">>
                          ELSE <<"{","t","m","d","b","-">> \o EmbeddedId[1] \o <<"}">>)

\* the file "zz TMDB-.mkv", whose name is unlike the title and holds neither an id nor a
\* year, is renamed with the TMDb id of the metadata while SIMILARITY_AUTO is 100
C29_MarkerWithoutIdRenamed ==
    /\ video_item = V_marker_tmdb
    /\ tmdb_id_explicit_match(raw_filename) = None
    /\ SIMILARITY_AUTO = 100
    /\ decision.action = "AUTO_RENAME"
    /\ ~decision.year_match
    /\ call.new_path = <<"/","m","/","H","e","a","t"," ","(","1","9","9","5",")"," ","{","t","m","d","b","-","7","}",".","m","k","v">>
    /\ call.outcome = "RENAMED"

\* the videos of the listing, in its order
Listed == IF sections = None THEN << >> ELSE listed_videos(sections[1])

\* the item the run is at is the video of that place in the listing, and what was decided
\* for it is what its file name and its metadata give
AtListedVideo ==
    item_no > 0 =>
        /\ item_no <= Len(Listed)
        /\ video_item = Listed[item_no]
        /\ result = process_movie_of(video_item, words_of(WORDS_TO_REMOVE))
        /\ decision = item_decision(result, SIMILARITY_AUTO, SIMILARITY_ASK, YEAR_DIFF_AUTO)

\* the run goes to the next video, one place further, and only from the head of the loop,
\* where the item before is through
NextItemAfterThisOne ==
    item_no' # item_no \/ video_item' # video_item =>
        /\ pc = "loop"
        /\ ~call.active
        /\ item_no' = item_no + 1

\* C30: if every prompt is answered with s or n in the end, list_movie_files returns, and
\* it has then gone through every video of every fetched movie section, one after the
\* other in the order of the listing, each once, each begun only when the one before was
\* through, whatever came of the items before
C30_EveryItemOnceInOrder ==
    /\ <>(pc = "done")
    /\ [](pc = "done" => item_no = Len(Listed))
    /\ []AtListedVideo
    /\ [][NextItemAfterThisOne]_vars

\* the run is through a listing of two videos, and the second, whose file the first one
\* took, failed to be renamed
C30_SecondItemAfterRenamedFirst ==
    /\ pc = "done"
    /\ Len(Listed) = 2
    /\ item_no = 2
    /\ video_item = Listed[1]
    /\ call.outcome = "FAILED"

=============================================================================
